---- MODULE Spec2Model ----
(***************************************************************************)
(* Model of the context-assistant extraction server.                       *)
(*                                                                         *)
(* JavaScript strings are TLA+ strings (TLC evaluates Len, SubSeq and \o   *)
(* on them); a JavaScript value that need not be a string is a record      *)
(* [t |-> its typeof-like tag, s |-> its String() rendering].              *)
(***************************************************************************)
EXTENDS Integers, Sequences, FiniteSets, TLC

(***************************************************************************)
(* Characters and the String.prototype methods the code uses.              *)
(***************************************************************************)
Chr(s, i) == SubSeq(s, i, i)

UpperChars == "ABCDEFGHIJKLMNOPQRSTUVWXYZ"
LowerChars == "abcdefghijklmnopqrstuvwxyz"
DigitChars == "0123456789"

UpperSet == {Chr(UpperChars, i) : i \in 1..26}
LowerSet == {Chr(LowerChars, i) : i \in 1..26}
DigitSet == {Chr(DigitChars, i) : i \in 1..10}
SpaceSet == {" ", "\t", "\n", "\r"}
LetterSet == UpperSet \cup LowerSet
WordSet == LetterSet \cup DigitSet \cup {"_"}

LowerCh(c) ==
  IF c \in UpperSet
  THEN Chr(LowerChars, CHOOSE i \in 1..26 : Chr(UpperChars, i) = c)
  ELSE c

UpperCh(c) ==
  IF c \in LowerSet
  THEN Chr(UpperChars, CHOOSE i \in 1..26 : Chr(LowerChars, i) = c)
  ELSE c

\* The concatenation of parts[lo..hi], halving the range so that the
\* evaluation depth stays logarithmic in the length.
RECURSIVE JoinRange(_, _, _)
JoinRange(parts, lo, hi) ==
  IF lo > hi THEN ""
  ELSE IF lo = hi THEN parts[lo]
  ELSE LET mid == (lo + hi) \div 2
       IN JoinRange(parts, lo, mid) \o JoinRange(parts, mid + 1, hi)

\* The least j in lo..hi with P[j], or 0 when there is none (by halving,
\* lower half first).
RECURSIVE FirstIndex(_, _, _)
RECURSIVE IndexOrLater(_, _, _, _)
FirstIndex(lo, hi, P) ==
  IF lo > hi THEN 0
  ELSE IF lo = hi THEN (IF P[lo] THEN lo ELSE 0)
  ELSE IndexOrLater(FirstIndex(lo, (lo + hi) \div 2, P), (lo + hi) \div 2 + 1, hi, P)

IndexOrLater(low, lo, hi, P) == IF low # 0 THEN low ELSE FirstIndex(lo, hi, P)

toLowerCase(s) == JoinRange([i \in 1..Len(s) |-> LowerCh(Chr(s, i))], 1, Len(s))

\* Index of the first non-space character at or after i (Len(s)+1 if none).
RECURSIVE SkipSpaces(_, _)
SkipSpaces(s, i) ==
  IF i <= Len(s) /\ Chr(s, i) \in SpaceSet THEN SkipSpaces(s, i + 1) ELSE i

\* Index of the last non-space character at or before i (0 if none).
RECURSIVE SkipSpacesBack(_, _)
SkipSpacesBack(s, i) ==
  IF i >= 1 /\ Chr(s, i) \in SpaceSet THEN SkipSpacesBack(s, i - 1) ELSE i

trim(s) == SubSeq(s, SkipSpaces(s, 1), SkipSpacesBack(s, Len(s)))

includes(s, sub) ==
  \E i \in 1..(Len(s) - Len(sub) + 1) : SubSeq(s, i, i + Len(sub) - 1) = sub

\* s.replace(/\s+/g, " ")
collapseWhitespace(s) ==
  JoinRange([i \in 1..Len(s) |->
               IF Chr(s, i) \notin SpaceSet THEN Chr(s, i)
               ELSE IF i > 1 /\ Chr(s, i - 1) \in SpaceSet THEN "" ELSE " "],
            1, Len(s))

(***************************************************************************)
(* Regular expressions.  A pattern is a sequence of nodes; M is the        *)
(* backtracking matcher of ECMAScript (alternatives left to right, greedy  *)
(* repetition longest first, lazy repetition shortest first), run with the *)
(* ignore-case flag that every pattern of the repository carries.  A match *)
(* result is [ok, b, e, cb, ce]: it covers s[b..e-1] and capture group 1   *)
(* covers s[cb..ce-1] (cb = 0: the group did not take part).               *)
(***************************************************************************)
Lit(str) == [k |-> "lit", s |-> str]
Cls(set) == [k |-> "cls", set |-> set]
Alt(alts) == [k |-> "alt", alts |-> alts]
Rep(body, min, max, lazy) ==
  [k |-> "rep", body |-> body, min |-> min, max |-> max, lazy |-> lazy]
CapB == [k |-> "capb"]
CapE == [k |-> "cape"]
Eos == [k |-> "eos"]
Wb == [k |-> "wb"]

Unbounded == -1
Opt(body) == Rep(body, 0, 1, FALSE)
Plus(body) == Rep(body, 1, Unbounded, FALSE)
Star(body) == Rep(body, 0, Unbounded, FALSE)
LazyPlus(body) == Rep(body, 1, Unbounded, TRUE)
Cap(body) == <<CapB>> \o body \o <<CapE>>
\* (?:w1|w2|...) for literal words
Words(ws) == Alt([j \in 1..Len(ws) |-> <<Lit(ws[j])>>])
Ws == Cls(SpaceSet)
Digit == Cls(DigitSet)

NoMatch == [ok |-> FALSE, b |-> 0, e |-> 0, cb |-> 0, ce |-> 0]

IsWordAt(s, i) == i >= 1 /\ i <= Len(s) /\ Chr(s, i) \in WordSet

InClass(c, set) == c \in set \/ LowerCh(c) \in set \/ UpperCh(c) \in set

\* The first alternative when it matches, else the second
Prefer(first, second) == IF first.ok THEN first ELSE second

\* The first match among R[lo..hi], or NoMatch (by halving, lower half
\* first).
RECURSIVE FirstMatch(_, _, _)
FirstMatch(lo, hi, R) ==
  IF lo > hi THEN NoMatch
  ELSE IF lo = hi THEN Prefer(R[lo], NoMatch)
  ELSE Prefer(FirstMatch(lo, (lo + hi) \div 2, R),
              FirstMatch((lo + hi) \div 2 + 1, hi, R))

\* The length of the run of characters of the class at s[i..]
RunLength(s, i, stopAt) == IF stopAt = 0 THEN Len(s) - i + 1 ELSE stopAt - i
ClassRun(s, i, set) ==
  RunLength(s, i,
            FirstIndex(i, Len(s), [j \in i..Len(s) |-> ~InClass(Chr(s, j), set)]))
AtMost(max, run) == IF max # Unbounded /\ max < run THEN max ELSE run

RECURSIVE M(_, _, _, _, _)
RECURSIVE MAlt(_, _, _, _, _, _, _)
RECURSIVE MClassRep(_, _, _, _, _, _, _)
RECURSIVE MRep(_, _, _, _, _, _)
RECURSIVE MMore(_, _, _, _, _, _)

M(nodes, s, i, cb, ce) ==
  IF Len(nodes) = 0
  THEN [ok |-> TRUE, b |-> 0, e |-> i, cb |-> cb, ce |-> ce]
  ELSE
    LET n == Head(nodes)
        rest == Tail(nodes)
    IN CASE n.k = "lit" ->
              IF /\ i + Len(n.s) - 1 <= Len(s)
                 /\ \A j \in 1..Len(n.s) :
                      LowerCh(Chr(s, i + j - 1)) = LowerCh(Chr(n.s, j))
              THEN M(rest, s, i + Len(n.s), cb, ce)
              ELSE NoMatch
         [] n.k = "cls" ->
              IF i <= Len(s) /\ InClass(Chr(s, i), n.set)
              THEN M(rest, s, i + 1, cb, ce)
              ELSE NoMatch
         [] n.k = "alt" -> MAlt(n.alts, 1, rest, s, i, cb, ce)
         [] n.k = "rep" /\ Len(n.body) = 1 /\ n.body[1].k = "cls" ->
              MClassRep(n, rest, s, i, cb, ce,
                        AtMost(n.max, ClassRun(s, i, n.body[1].set)))
         [] n.k = "rep" /\ ~(Len(n.body) = 1 /\ n.body[1].k = "cls") ->
              MRep(n, rest, s, i, cb, ce)
         [] n.k = "capb" -> M(rest, s, i, i, ce)
         [] n.k = "cape" -> M(rest, s, i, cb, i)
         [] n.k = "eos" ->
              IF i = Len(s) + 1 THEN M(rest, s, i, cb, ce) ELSE NoMatch
         [] n.k = "wb" ->
              IF IsWordAt(s, i - 1) # IsWordAt(s, i)
              THEN M(rest, s, i, cb, ce)
              ELSE NoMatch

MAlt(alts, j, rest, s, i, cb, ce) ==
  IF j > Len(alts) THEN NoMatch
  ELSE Prefer(M(alts[j] \o rest, s, i, cb, ce),
              MAlt(alts, j + 1, rest, s, i, cb, ce))

\* A repeated character class: the counts the backtracking tries are those
\* of the run of class characters at i (at most `most`), the fewest first
\* when lazy and the most first when greedy.
MClassRep(n, rest, s, i, cb, ce, most) ==
  FirstMatch(n.min, most,
             [c \in n.min..most |->
                M(rest, s, i + (IF n.lazy THEN c ELSE most + n.min - c), cb, ce)])

\* One more round of the body, then the repetition with one round fewer to go
MMore(n, rest, s, i, cb, ce) ==
  M(n.body
      \o <<Rep(n.body, IF n.min > 0 THEN n.min - 1 ELSE 0,
               IF n.max = Unbounded THEN Unbounded ELSE n.max - 1, n.lazy)>>
      \o rest,
    s, i, cb, ce)

MRep(n, rest, s, i, cb, ce) ==
  IF n.min > 0 THEN MMore(n, rest, s, i, cb, ce)
  ELSE IF n.max = 0 THEN M(rest, s, i, cb, ce)
  ELSE IF n.lazy
       THEN Prefer(M(rest, s, i, cb, ce), MMore(n, rest, s, i, cb, ce))
       ELSE Prefer(MMore(n, rest, s, i, cb, ce), M(rest, s, i, cb, ce))

\* The leftmost match of pattern p in s starting at or after index i.
SearchFrom(p, s, i) ==
  FirstMatch(i, Len(s) + 1,
             [j \in i..(Len(s) + 1) |-> [M(p, s, j, 0, 0) EXCEPT !.b = j]])

\* RegExp.prototype.test of a pattern without the g flag
test(p, s) == SearchFrom(p, s, 1).ok

\* String.prototype.matchAll of a pattern with the g flag: the successive
\* matches, each search resuming where the previous match ended (one further
\* on after an empty match).
RECURSIVE MatchAllFrom(_, _, _)
RECURSIVE MatchAndRest(_, _, _)
MatchAllFrom(p, s, i) == MatchAndRest(p, s, SearchFrom(p, s, i))

MatchAndRest(p, s, r) ==
  IF ~r.ok THEN <<>>
  ELSE <<r>> \o MatchAllFrom(p, s, IF r.e = r.b THEN r.e + 1 ELSE r.e)

matchAll(p, s) == MatchAllFrom(p, s, 1)

\* match[1] of a match result: undefined (here "") when the group took no part
Group1(s, r) == IF r.cb = 0 THEN "" ELSE SubSeq(s, r.cb, r.ce - 1)

(***************************************************************************)
(* JavaScript values: request fields and the fields of the records the     *)
(* text-generation service returns need not be strings.                    *)
(***************************************************************************)
Str(str) == [t |-> "string", s |-> str]
Num(str) == [t |-> "number", s |-> str]
Undefined == [t |-> "undefined", s |-> "undefined"]
Null == [t |-> "null", s |-> "null"]

\* ToBoolean
Truthy(v) ==
  CASE v.t = "string" -> v.s # ""
    [] v.t = "number" -> v.s # "0"
    [] OTHER -> FALSE

\* String(v || "")
StringOrEmpty(v) == IF Truthy(v) THEN v.s ELSE ""

\* One element of the "facts" array of a reply: an object with the three
\* documented fields (any of which may be missing or ill-typed), or a
\* non-object such as null.
Fact(type, value, source) ==
  [obj |-> TRUE, type |-> type, value |-> value, source_text |-> source]
NotAnObject ==
  [obj |-> FALSE, type |-> Undefined, value |-> Undefined, source_text |-> Undefined]

(***************************************************************************)
(* chunkTextForExtraction                                                  *)
(***************************************************************************)
ChunkMax == 180
MergeBelow == 80
ChunkMin == 6

\* normalized.split(/(?<=[.!?])\s+/) on whitespace-normalized text: the text
\* is cut at every space that follows a sentence terminator.
RECURSIVE SplitSentencesFrom(_, _)
RECURSIVE CutSentence(_, _, _)
SplitSentencesFrom(s, b) ==
  CutSentence(s, b,
              FirstIndex(b, Len(s),
                         [i \in b..Len(s) |->
                            Chr(s, i) \in SpaceSet /\ i > 1
                              /\ Chr(s, i - 1) \in {".", "!", "?"}]))

CutSentence(s, b, cut) ==
  IF cut = 0 THEN <<SubSeq(s, b, Len(s))>>
  ELSE <<SubSeq(s, b, cut - 1)>> \o SplitSentencesFrom(s, SkipSpaces(s, cut))

\* .map(s => s.trim()).filter(Boolean)
TrimAll(parts) == [j \in 1..Len(parts) |-> trim(parts[j])]
NonEmpty(parts) == SelectSeq(parts, LAMBDA x : x # "")

splitSentences(s) == NonEmpty(TrimAll(SplitSentencesFrom(s, 1)))

\* /\s*(?:,|;|\band\b|\bbut\b|\bthen\b|\balso\b)\s*/i
ClauseSeparator ==
  << Star(<<Ws>>),
     Alt(<< <<Lit(",")>>, <<Lit(";")>>,
            <<Wb, Lit("and"), Wb>>, <<Wb, Lit("but"), Wb>>,
            <<Wb, Lit("then"), Wb>>, <<Wb, Lit("also"), Wb>> >>),
     Star(<<Ws>>) >>

\* String.prototype.split with a regular expression without capture groups
RECURSIVE SplitByFrom(_, _, _, _)
RECURSIVE CutAt(_, _, _, _, _)
SplitByFrom(p, s, b, i) == CutAt(p, s, b, i, SearchFrom(p, s, i))

CutAt(p, s, b, i, r) ==
  IF ~r.ok \/ r.b > Len(s) THEN <<SubSeq(s, b, Len(s))>>
  ELSE IF r.e = r.b THEN SplitByFrom(p, s, b, i + 1)
  ELSE <<SubSeq(s, b, r.b - 1)>> \o SplitByFrom(p, s, r.e, r.e)

splitClauses(s) == NonEmpty(TrimAll(SplitByFrom(ClauseSeparator, s, 1, 1)))

\* The re-joining loop: [out, buf] after the parts from index j on.
RECURSIVE Rejoin(_, _, _, _)
Rejoin(parts, j, out, buf) ==
  IF j > Len(parts) THEN (IF buf # "" THEN Append(out, buf) ELSE out)
  ELSE LET p == parts[j]
           candidate == IF buf # "" THEN buf \o " " \o p ELSE p
       IN IF Len(candidate) < MergeBelow
          THEN Rejoin(parts, j + 1, out, candidate)
          ELSE Rejoin(parts, j + 1, IF buf # "" THEN Append(out, buf) ELSE out, p)

RECURSIVE ChunkSentences(_, _)
ChunkSentences(sentences, j) ==
  IF j > Len(sentences) THEN <<>>
  ELSE (IF Len(sentences[j]) <= ChunkMax
        THEN <<sentences[j]>>
        ELSE Rejoin(splitClauses(sentences[j]), 1, <<>>, ""))
       \o ChunkSentences(sentences, j + 1)

\* Variant: the chunks of fewer than 6 characters are kept
ChunkNormalized_KeepsShort(normalized) ==
  IF normalized = "" THEN <<>>
  ELSE ChunkSentences(splitSentences(normalized), 1)

ChunkNormalized(normalized) ==
  IF normalized = "" THEN <<>>
  ELSE SelectSeq(ChunkSentences(splitSentences(normalized), 1),
                 LAMBDA c : Len(c) >= ChunkMin)

chunkTextForExtraction(input) == ChunkNormalized(trim(collapseWhitespace(input)))

(***************************************************************************)
(* extractFactsFromSingleChunk: what one reply of the service contributes. *)
(* A reply is [kind, facts]:                                               *)
(*   "raise"    ollama.chat rejected (service unreachable)                 *)
(*   "invalid"  the content is not JSON (JSON.parse throws) or is JSON     *)
(*              null (reading .facts throws): the catch block runs         *)
(*   "nofacts"  a JSON object whose facts field is not an array            *)
(*   "facts"    a JSON object with the array `facts`                       *)
(***************************************************************************)
Reply(kind, facts) == [kind |-> kind, facts |-> facts]

\* Variant: the filter without the check of source_text against the chunk
KeepFact_NoGuard(fact, chunk) ==
  /\ fact.obj
  /\ Truthy(fact.type) /\ Truthy(fact.value) /\ Truthy(fact.source_text)
  /\ ~(fact.value = Str("null") \/ fact.type = Str("null"))

\* String.prototype.includes coerces its argument with String()
KeepFact(fact, chunk) ==
  /\ fact.obj
  /\ Truthy(fact.type) /\ Truthy(fact.value) /\ Truthy(fact.source_text)
  /\ ~(fact.value = Str("null") \/ fact.type = Str("null"))
  /\ includes(chunk, fact.source_text.s)

\* Variant: the call to ollama.chat and JSON.parse both outside the try block
Rejects_ParseOutsideTry(reply) == reply.kind \in {"raise", "invalid"}

\* await ollama.chat(...) stands outside the try block: when the call
\* rejects, the exception leaves extractFactsFromSingleChunk and the loop of
\* extractFactsFromText.
Rejects(reply) == reply.kind = "raise"

\* The facts of a reply that pass every check of the filter but the
\* hallucination guard (bookkeeping of the model).
Fabricated(reply, chunk, k) ==
  {[f |-> reply.facts[j], k |-> k] :
     j \in {i \in 1..Len(reply.facts) :
              /\ ~KeepFact(reply.facts[i], chunk)
              /\ KeepFact(reply.facts[i], reply.facts[i].source_text.s)}}

\* The facts a reply to chunk number k contributes.  Each is kept as
\* [f |-> the fact object, k |-> k]; k is bookkeeping of the model, the code
\* keeps the fact object alone.
chunkFacts(reply, chunk, k) ==
  IF reply.kind = "facts"
  THEN LET kept == SelectSeq(reply.facts, LAMBDA f : KeepFact(f, chunk))
       IN [j \in 1..Len(kept) |-> [f |-> kept[j], k |-> k]]
  ELSE <<>>

(***************************************************************************)
(* dedupeFacts: the dedupe key                                             *)
(***************************************************************************)
\* const type = String(f.type || "").trim()
dedupeType(f) == trim(StringOrEmpty(f.type))
\* const value = String(f.value || "").trim().toLowerCase()
dedupeValue(f) == toLowerCase(trim(StringOrEmpty(f.value)))
\* Variant: a key made of the value alone
dedupeKey_ValueOnly(type, value) == value
\* const key = `${type}::${value}`
dedupeKey(type, value) == type \o "::" \o value

(***************************************************************************)
(* validateAndCorrectFactType and its patterns                             *)
(***************************************************************************)
MonthNames ==
  Alt(<< <<Lit("jan"), Opt(<<Lit("uary")>>)>>, <<Lit("feb"), Opt(<<Lit("ruary")>>)>>,
         <<Lit("mar"), Opt(<<Lit("ch")>>)>>, <<Lit("apr"), Opt(<<Lit("il")>>)>>,
         <<Lit("may")>>, <<Lit("jun"), Opt(<<Lit("e")>>)>>,
         <<Lit("jul"), Opt(<<Lit("y")>>)>>, <<Lit("aug"), Opt(<<Lit("ust")>>)>>,
         <<Lit("sep"), Opt(<<Lit("t"), Opt(<<Lit("ember")>>)>>)>>,
         <<Lit("oct"), Opt(<<Lit("ober")>>)>>, <<Lit("nov"), Opt(<<Lit("ember")>>)>>,
         <<Lit("dec"), Opt(<<Lit("ember")>>)>> >>)
Ordinal == Opt(<<Words(<<"st", "nd", "rd", "th">>)>>)

DateKeywords ==
  << Wb,
     Alt(<< <<Lit("birthday")>>, <<Lit("bday")>>, <<Lit("b-day")>>, <<Lit("born")>>,
            <<Lit("anniversary")>>, <<Lit("wedding")>>, <<Lit("deadline")>>,
            <<Lit("due date")>>, <<Lit("appointment")>>,
            <<Lit("meet"), Opt(<<Lit("ing")>>)>>, <<Lit("interview")>> >>),
     Wb >>
DateMonthWord ==
  << Wb,
     Words(<<"january", "february", "march", "april", "may", "june", "july",
             "august", "september", "october", "november", "december", "jan",
             "feb", "mar", "apr", "jun", "jul", "aug", "sep", "sept", "oct",
             "nov", "dec">>),
     Wb >>
DateMonthWithDay ==
  << Wb, MonthNames, Plus(<<Ws>>), Rep(<<Digit>>, 1, 2, FALSE), Ordinal, Wb >>
DateDayWithMonth ==
  << Wb, Rep(<<Digit>>, 1, 2, FALSE), Ordinal, Plus(<<Ws>>),
     Opt(<<Lit("of"), Plus(<<Ws>>)>>), MonthNames, Wb >>
DateNumeric ==
  << Wb,
     Alt(<< <<Rep(<<Digit>>, 4, 4, FALSE), Lit("-"), Rep(<<Digit>>, 2, 2, FALSE),
              Lit("-"), Rep(<<Digit>>, 2, 2, FALSE)>>,
            <<Rep(<<Digit>>, 1, 2, FALSE), Lit("/"), Rep(<<Digit>>, 1, 2, FALSE),
              Opt(<<Lit("/"), Rep(<<Digit>>, 2, 4, FALSE)>>)>> >>),
     Wb >>
PlaceVerbs ==
  << Wb,
     Words(<<"went to", "visited", "traveled to", "travelled to", "lives in",
             "from", "works at", "moved to", "based in", "in">>),
     Wb >>
InterestVerbs ==
  << Wb,
     Words(<<"likes", "like", "enjoys", "enjoy", "loves", "love", "plays", "play",
             "favorite", "favourite", "interested in", "passionate about">>),
     Wb >>

AllowedTypes == {"interest", "important_date", "place", "note"}

\* fact.source_text || fact.value || ""
factText(fact) ==
  IF Truthy(fact.source_text) THEN fact.source_text
  ELSE IF Truthy(fact.value) THEN fact.value
  ELSE Str("")

hasDate(lowered) ==
  \/ test(DateKeywords, lowered)
  \/ test(DateNumeric, lowered)
  \/ test(DateMonthWithDay, lowered)
  \/ test(DateDayWithMonth, lowered)
  \/ (test(DateMonthWord, lowered) /\ test(DateKeywords, lowered))

\* Variant: place indicators tested before date indicators
CorrectedType_PlaceFirst(fact, lowered) ==
  IF ~(fact.type.t = "string" /\ fact.type.s \in AllowedTypes) THEN "note"
  ELSE IF test(PlaceVerbs, lowered) THEN "place"
  ELSE IF hasDate(lowered) THEN "important_date"
  ELSE IF test(InterestVerbs, lowered) THEN "interest"
  ELSE "note"

\* Variant: the last line of the legacy version, return fact.type
CorrectedType_KeepsServiceType(fact, lowered) ==
  IF ~(fact.type.t = "string" /\ fact.type.s \in AllowedTypes) THEN "note"
  ELSE IF hasDate(lowered) THEN "important_date"
  ELSE IF test(PlaceVerbs, lowered) THEN "place"
  ELSE IF test(InterestVerbs, lowered) THEN "interest"
  ELSE fact.type.s

\* The chain of tests on the lowercased text
CorrectedType(fact, lowered) ==
  IF ~(fact.type.t = "string" /\ fact.type.s \in AllowedTypes) THEN "note"
  ELSE IF hasDate(lowered) THEN "important_date"
  ELSE IF test(PlaceVerbs, lowered) THEN "place"
  ELSE IF test(InterestVerbs, lowered) THEN "interest"
  ELSE "note"

\* The corrected type, or "TypeError" when .toLowerCase is called on a
\* value that is not a string.
validateAndCorrectFactType(fact) ==
  IF factText(fact).t # "string" THEN "TypeError"
  ELSE CorrectedType(fact, toLowerCase(factText(fact).s))

(***************************************************************************)
(* Inputs.                                                                 *)
(***************************************************************************)
\* The most fact records the service returns over the chunks of one request.
MaxFacts == 3

Bodies ==
  { Undefined, Num("42"), Str(""), Str("  \n"), Str("Hello"), Str(" Hi!  Yes. "),
    Str("I like tea."),
    Str("I like tea. I am from Rome! Born 5/5?") }

F(type, value, source) == Fact(Str(type), Str(value), Str(source))

FactPool ==
  { F("interest", "likes tea", "I like tea"),
    F("note", "Likes Tea ", "like tea"),
    F("interest ", " LIKES TEA", "tea"),
    F("place", "from Rome", "I am from Rome"),
    F("hobby", "   ", "tea"),
    Fact(Str("note"), Num("5"), Num("5")),
    NotAnObject }

\* What the code computes from one fact alone: the corrected type, the two
\* parts of the dedupe key, and fact.value.trim().  The table is computed
\* once, in the initial state, and kept in the variable factTable, so that
\* the patterns and string operations run once per fact and not once per
\* state.
TableOf(pool) ==
  { [f |-> f,
     correctedType |-> validateAndCorrectFactType(f),
     dedupeType |-> dedupeType(f),
     dedupeValue |-> dedupeValue(f),
     trimmed |-> trim(f.value.s)] : f \in pool }

FactTable == TableOf(FactPool)

VARIABLE factTable

Row(fact) == CHOOSE r \in factTable : r.f = fact

(***************************************************************************)
(* dedupeFacts, over the facts kept with their chunk number                *)
(***************************************************************************)
RECURSIVE DedupeFrom(_, _, _, _)
DedupeFrom(facts, j, seen, out) ==
  IF j > Len(facts) THEN out
  ELSE
    LET type == Row(facts[j].f).dedupeType
        value == Row(facts[j].f).dedupeValue
        key == dedupeKey(type, value)
    IN IF type = "" \/ value = "" THEN DedupeFrom(facts, j + 1, seen, out)
       ELSE IF key \in seen THEN DedupeFrom(facts, j + 1, seen, out)
       ELSE DedupeFrom(facts, j + 1, seen \cup {key}, Append(out, facts[j]))

dedupeFacts(facts) == DedupeFrom(facts, 1, {}, <<>>)

RECURSIVE SeqsUpTo(_, _)
SeqsUpTo(S, n) ==
  IF n = 0 THEN {<<>>}
  ELSE LET shorter == SeqsUpTo(S, n - 1)
       IN shorter \cup {Append(q, x) : q \in {r \in shorter : Len(r) = n - 1}, x \in S}

Replies(n) ==
  {Reply("raise", <<>>), Reply("invalid", <<>>), Reply("nofacts", <<>>)}
    \cup {Reply("facts", fs) : fs \in SeqsUpTo(FactPool, n)}

(***************************************************************************)
(* transformToFrontendFormat.  An item is [value, src]: value is what the  *)
(* response carries, src the fact it was made from (bookkeeping).          *)
(***************************************************************************)
EmptyResult ==
  [threw |-> FALSE, message |-> "", interests |-> <<>>, importantDates |-> <<>>,
   places |-> <<>>, notes |-> <<>>]
Thrown(message) == [EmptyResult EXCEPT !.threw = TRUE, !.message = message]

RECURSIVE TransformFrom(_, _, _)
TransformFrom(facts, j, result) ==
  IF j > Len(facts) THEN result
  ELSE
    LET fact == facts[j].f
        correctedType == Row(fact).correctedType
        item == [value |-> Row(fact).trimmed, src |-> facts[j]]
    IN IF ~fact.obj \/ ~Truthy(fact.value) THEN TransformFrom(facts, j + 1, result)
       ELSE IF correctedType = "TypeError"
            THEN Thrown("toLowerCase is not a function")
       ELSE IF fact.value.t # "string"
            THEN Thrown("fact.value.trim is not a function")
       ELSE TransformFrom(facts, j + 1,
              CASE correctedType = "interest" ->
                     [result EXCEPT !.interests = Append(@, item)]
                [] correctedType = "important_date" ->
                     [result EXCEPT !.importantDates = Append(@, item)]
                [] correctedType = "place" ->
                     [result EXCEPT !.places = Append(@, item)]
                [] OTHER ->
                     [result EXCEPT !.notes = Append(@, item)])

transformToFrontendFormat(facts) == TransformFrom(facts, 1, EmptyResult)

(***************************************************************************)
(* The POST /extract handlers.  A response is [status, error, message,     *)
(* arrays, interests, importantDates, places, notes]; arrays = FALSE means *)
(* the body carries none of the four category fields.                      *)
(***************************************************************************)
NoResponse ==
  [status |-> 0, error |-> "", message |-> "", arrays |-> FALSE,
   interests |-> <<>>, importantDates |-> <<>>, places |-> <<>>, notes |-> <<>>]

\* Variant: the test of ai.routes.ts in the handler of index.ts
InvalidText_NoTrim(text) == ~Truthy(text) \/ text.t # "string"

\* index.ts: !text || typeof text !== "string" || text.trim().length === 0
InvalidText(text) ==
  ~Truthy(text) \/ text.t # "string" \/ Len(trim(text.s)) = 0

\* ai.routes.ts: !text || typeof text !== "string"
InvalidTextRoutes(text) == ~Truthy(text) \/ text.t # "string"

ValidationResponse ==
  [NoResponse EXCEPT !.status = 400, !.error = "ValidationError",
     !.message = "Missing or invalid 'text' field in request body",
     !.arrays = TRUE]

ValidationResponseRoutes ==
  [NoResponse EXCEPT !.status = 400, !.error = "No text provided"]

SuccessResponse(result) ==
  [NoResponse EXCEPT !.status = 200, !.arrays = TRUE,
     !.interests = result.interests, !.importantDates = result.importantDates,
     !.places = result.places, !.notes = result.notes]

\* Variant: the catch block of the first index.ts of part_002, whose body
\* is { error, message } alone
FailureResponse_NoArrays(message) ==
  [NoResponse EXCEPT !.status = 500, !.error = "AI extraction failed",
     !.message = message]

FailureResponse(message) ==
  [NoResponse EXCEPT !.status = 500, !.error = "AI extraction failed",
     !.message = message, !.arrays = TRUE]

FailureResponseRoutes(message) ==
  [NoResponse EXCEPT !.status = 500,
     !.error = IF message # "" THEN message ELSE "Failed to extract facts",
     !.arrays = TRUE]

(***************************************************************************)
(* The deterministic extractor (part_001): PATTERNS, KEYWORDS and          *)
(* extractStructuredData.                                                  *)
(***************************************************************************)
\* (?:\s+(?:w1|w2|...)|$)
Until(ws) == Alt(<< <<Plus(<<Ws>>), Words(ws)>>, <<Eos>> >>)
\* w followed by an optional s
Plural(w) == <<Lit(w), Opt(<<Lit("s")>>)>>
\* ([A-Z][set]+?)
CapitalizedLazy(set) == Cap(<<Cls(UpperSet), LazyPlus(<<Cls(set)>>)>>)
\* \s*:?\s*
OptColon == <<Star(<<Ws>>), Opt(<<Lit(":")>>), Star(<<Ws>>)>>

PATTERNS ==
  [interests |->
     << << Alt(<< Plural("like"), Plural("love"), Plural("enjoy"), <<Lit("into")>>,
                  <<Lit("interested in")>>, <<Lit("passionate about")>>,
                  <<Lit("obsessed with")>>, <<Lit("fan of")>>,
                  Plural("really like") >>),
           Plus(<<Ws>>) >>
          \o Cap(<<LazyPlus(<<Cls(LetterSet \cup SpaceSet \cup {","})>>)>>)
          \o <<Until(<<"a lot", "so much", "too", "and", "but", ".">>)>>,
        << Words(<<"hobby", "hobbies", "passion", "pastime">>),
           Opt(<<Plus(<<Ws>>), Words(<<"is", "are", "include">>)>>) >>
          \o OptColon
          \o Cap(<<LazyPlus(<<Cls(LetterSet \cup SpaceSet \cup {","})>>)>>)
          \o <<Until(<<"and", "but", ".">>)>>,
        << Words(<<"playing", "watching", "doing", "practicing", "learning",
                   "studying", "collecting">>),
           Plus(<<Ws>>) >>
          \o Cap(<<LazyPlus(<<Cls(LetterSet \cup SpaceSet)>>)>>)
          \o <<Until(<<"a lot", "often", "regularly", "and", "but", ".">>)>> >>,
   importantDates |->
     << << Words(<<"birthday", "anniversary", "wedding", "graduation", "deadline",
                   "event", "meeting", "appointment", "celebration">>),
           Opt(<<Plus(<<Ws>>), Words(<<"on", "is", "at", "in">>)>>),
           Star(<<Ws>>) >>
          \o Cap(<<LazyPlus(<<Cls(LetterSet \cup DigitSet \cup SpaceSet
                                    \cup {",", "/", "-"})>>)>>)
          \o <<Until(<<"and", "but", ".">>)>>,
        << Words(<<"on", "scheduled for", "happening on", "taking place on">>),
           Plus(<<Ws>>) >>
          \o Cap(<< Cls(UpperSet), Plus(<<Cls(LetterSet)>>), Plus(<<Ws>>),
                    Rep(<<Digit>>, 1, 2, FALSE),
                    Opt(<<Words(<<"st", "nd", "rd", "th">>)>>),
                    Opt(<<Opt(<<Lit(",")>>), Plus(<<Ws>>),
                          Rep(<<Digit>>, 4, 4, FALSE)>>) >>),
        <<Wb>>
          \o Cap(<< Rep(<<Digit>>, 1, 2, FALSE), Cls({"/", "-"}),
                    Rep(<<Digit>>, 1, 2, FALSE),
                    Opt(<<Cls({"/", "-"}), Rep(<<Digit>>, 2, 4, FALSE)>>) >>)
          \o <<Wb>>,
        << Alt(<< <<Lit("tomorrow")>>,
                  <<Lit("next "),
                    Words(<<"week", "month", "monday", "tuesday", "wednesday",
                            "thursday", "friday", "saturday", "sunday">>)>>,
                  <<Lit("this "), Words(<<"weekend", "week", "month">>)>> >>),
           Wb >> >>,
   places |->
     << << Words(<<"restaurant", "cafe", "club", "pub", "bistro", "diner", "eatery">>),
           Opt(<<Alt(<< <<Plus(<<Ws>>), Lit("called")>>, <<Lit(" named")>> >>)>>) >>
          \o OptColon
          \o CapitalizedLazy(LetterSet \cup SpaceSet \cup {"'"})
          \o <<Until(<<"on", "in", "at", "and", "but", ".">>)>>,
        << Alt(<< <<Lit("go"), Opt(<<Lit("ing")>>), Lit(" to")>>,
                  <<Lit("visit"), Opt(<<Lit("ing")>>)>>, <<Lit("heading to")>>,
                  <<Lit("went to")>>, <<Lit("been to")>>, <<Lit("wanna go to")>>,
                  <<Lit("want to go to")>> >>),
           Plus(<<Ws>>) >>
          \o CapitalizedLazy(LetterSet \cup SpaceSet \cup {"'"})
          \o <<Until(<<"on", "in", "for", "and", "but", "last", "next", "this", ".">>)>>,
        << Words(<<"location", "place", "venue", "city", "country", "town",
                   "neighborhood", "area", "spot">>) >>
          \o OptColon
          \o CapitalizedLazy(LetterSet \cup SpaceSet)
          \o <<Until(<<"and", "but", ".">>)>> >>]

KEYWORDS ==
  [interests |->
     <<"sushi", "coffee", "gaming", "reading", "travel", "music", "sports",
       "cooking", "photography", "hiking", "running", "yoga", "meditation",
       "painting", "drawing", "writing", "dancing", "singing", "cycling",
       "swimming", "skiing", "surfing", "climbing", "camping", "fishing",
       "gardening", "movies", "films", "cinema", "theater", "theatre",
       "concerts", "festivals", "anime", "manga", "podcasts", "audiobooks",
       "netflix", "streaming", "tv shows", "series", "coding", "programming",
       "design", "woodworking", "crafts", "knitting", "pottery", "sculpting",
       "tech", "gadgets", "electronics", "robotics", "drones", "wine", "beer",
       "cocktails", "tea", "chocolate", "baking", "grilling", "bbq", "fashion",
       "shopping", "makeup", "skincare", "fitness", "gym", "weightlifting",
       "chess", "puzzles", "board games", "video games", "history", "science",
       "astronomy", "languages">>,
   importantDates |->
     <<"birthday", "anniversary", "wedding", "graduation", "deadline", "exam",
       "test", "appointment", "meeting", "conference", "interview", "reunion",
       "party", "celebration", "vacation", "trip", "holiday", "festival",
       "concert date", "show", "performance">>,
   places |->
     <<"restaurant", "cafe", "coffee shop", "bar", "club", "pub", "bistro",
       "diner", "bakery", "gym", "park", "library", "museum", "gallery",
       "theater", "cinema", "mall", "market", "office", "home", "school",
       "university", "hospital", "airport", "station", "tokyo", "paris",
       "london", "new york", "nyc", "los angeles", "la", "chicago", "miami",
       "boston", "seattle", "portland", "austin", "denver", "san francisco",
       "sf", "rome", "barcelona", "madrid", "berlin", "amsterdam", "dubai",
       "singapore", "hong kong", "sydney", "melbourne", "toronto", "vancouver",
       "montreal", "downtown", "uptown", "midtown", "suburb", "beach",
       "mountain", "lake", "river">>]

GENERIC_FILTERS ==
  [places |->
     <<"a lot", "so much", "often", "regularly", "sometimes", "usually",
       "restaurant", "cafe", "bar", "place", "location", "venue", "city", "area">>,
   interests |-> <<"a lot", "so much", "too", "really", "very">>]

TrailingPunctuation == {",", ";", ".", "!", "?"}

\* value.replace(/[,;.!?]+$/, "")
RECURSIVE StripTrailing(_)
StripTrailing(value) ==
  IF value # "" /\ Chr(value, Len(value)) \in TrailingPunctuation
  THEN StripTrailing(SubSeq(value, 1, Len(value) - 1))
  ELSE value

cleanExtractedValue(value) == trim(collapseWhitespace(StripTrailing(value)))

\* results.has(key), results being the Map as its entries [key, value] in
\* insertion order
Has(results, key) == \E j \in 1..Len(results) : results[j].key = key

\* if (!results.has(key)) results.set(key, value)
SetIfAbsent(results, key, value) ==
  IF Has(results, key) THEN results
  ELSE Append(results, [key |-> key, value |-> value])

\* if (cleaned) { const key = cleaned.toLowerCase(); ... }
AddCleaned(results, cleaned) ==
  IF cleaned # "" THEN SetIfAbsent(results, toLowerCase(cleaned), cleaned)
  ELSE results

\* if (captured && captured.length > 1) { ... }
AddCaptured(results, captured) ==
  IF Len(captured) > 1 THEN AddCleaned(results, cleanExtractedValue(captured))
  ELSE results

\* The loop over the matches of one pattern
RECURSIVE AddMatches(_, _, _, _)
AddMatches(results, input, matches, j) ==
  IF j > Len(matches) THEN results
  ELSE AddMatches(AddCaptured(results, trim(Group1(input, matches[j]))),
                  input, matches, j + 1)

\* The loop over patternArray
RECURSIVE AddPatterns(_, _, _, _)
AddPatterns(results, input, patterns, j) ==
  IF j > Len(patterns) THEN results
  ELSE AddPatterns(AddMatches(results, input, matchAll(patterns[j], input), 1),
                   input, patterns, j + 1)

\* The nodes of keywordLower.replace(/\s+/g, "\\s+")
RECURSIVE KeywordNodes(_, _)
KeywordNodes(keyword, i) ==
  IF i > Len(keyword) THEN <<>>
  ELSE IF Chr(keyword, i) \in SpaceSet
       THEN <<Plus(<<Ws>>)>> \o KeywordNodes(keyword, SkipSpaces(keyword, i))
       ELSE LET space == FirstIndex(i, Len(keyword),
                                    [j \in i..Len(keyword) |->
                                       Chr(keyword, j) \in SpaceSet])
                end == IF space = 0 THEN Len(keyword) + 1 ELSE space
            IN <<Lit(SubSeq(keyword, i, end - 1))>> \o KeywordNodes(keyword, end)

\* new RegExp(`\\b${...}\\b`, "i")
wordBoundaryPattern(keyword) ==
  <<Wb>> \o KeywordNodes(toLowerCase(keyword), 1) \o <<Wb>>

\* keyword.split(" ").map(word => word.charAt(0).toUpperCase() + word.slice(1))
\*        .join(" ")
formatted(keyword) ==
  JoinRange([i \in 1..Len(keyword) |->
               IF i = 1 \/ Chr(keyword, i - 1) = " "
               THEN UpperCh(Chr(keyword, i)) ELSE Chr(keyword, i)],
            1, Len(keyword))

\* The loop over keywords: the keywords whose pattern matches, in list
\* order, each set unless its key is present already.
RECURSIVE AddHits(_, _, _)
AddHits(results, hits, j) ==
  IF j > Len(hits) THEN results
  ELSE AddHits(SetIfAbsent(results, toLowerCase(hits[j]), formatted(hits[j])),
               hits, j + 1)

AddKeywords(results, normalized, keywords) ==
  AddHits(results,
          SelectSeq(keywords,
                    LAMBDA keyword : test(wordBoundaryPattern(keyword), normalized)),
          1)

\* Array.from(results.values()).map(value => ({ value }))
Values(results) == [j \in 1..Len(results) |-> [value |-> results[j].value]]

extract(input, patterns, keywords) ==
  Values(AddKeywords(AddPatterns(<<>>, input, patterns, 1),
                     trim(toLowerCase(input)), keywords))

\* Variant: a filter that drops nothing
filterGenericWords_KeepAll(items, genericWords) == items

filterGenericWords(items, genericWords) ==
  LET genericSet == {toLowerCase(genericWords[j]) : j \in 1..Len(genericWords)}
  IN SelectSeq(items, LAMBDA item : toLowerCase(item.value) \notin genericSet)

\* Insertion of item into a list sorted by value.length, after the items
\* of the same length
RECURSIVE InsertByLength(_, _)
InsertByLength(sorted, item) ==
  IF sorted = <<>> THEN <<item>>
  ELSE IF Len(sorted[Len(sorted)].value) <= Len(item.value) THEN Append(sorted, item)
  ELSE Append(InsertByLength(SubSeq(sorted, 1, Len(sorted) - 1), item),
              sorted[Len(sorted)])

RECURSIVE SortFrom(_, _, _)
SortFrom(items, j, sorted) ==
  IF j > Len(items) THEN sorted
  ELSE SortFrom(items, j + 1, InsertByLength(sorted, items[j]))

\* Variant: the items left in the order they came in
sortByLength_Unsorted(items) == items

\* [...items].sort((a, b) => a.value.length - b.value.length): Array.prototype.sort
\* is stable
sortByLength(items) == SortFrom(items, 1, <<>>)

\* Variant: only the test of equal values; hasSubstring is not consulted
SurvivesLower_EqualityOnly(result, itemLower) ==
  ~\E j \in 1..Len(result) : toLowerCase(result[j].value) = itemLower

\* !hasSubstring && !result.some(r => r.value.toLowerCase() === itemLower)
SurvivesLower(result, itemLower) ==
  /\ ~\E j \in 1..Len(result) :
        /\ trim(toLowerCase(result[j].value)) # itemLower
        /\ includes(itemLower, trim(toLowerCase(result[j].value)))
  /\ ~\E j \in 1..Len(result) : toLowerCase(result[j].value) = itemLower

Survives(result, item) == SurvivesLower(result, trim(toLowerCase(item.value)))

\* The loop over sorted
RECURSIVE KeepFrom(_, _, _)
KeepFrom(sorted, j, result) ==
  IF j > Len(sorted) THEN result
  ELSE KeepFrom(sorted, j + 1,
                IF Survives(result, sorted[j]) THEN Append(result, sorted[j])
                ELSE result)

removeSubstringDuplicates(items) ==
  IF Len(items) <= 1 THEN items ELSE KeepFrom(sortByLength(items), 1, <<>>)

\* The object extractStructuredData returns with, beside it, the three raw
\* lists (bookkeeping of the model).
Classified(rawInterests, rawDates, rawPlaces, input) ==
  [raw |-> [interests |-> rawInterests, importantDates |-> rawDates,
            places |-> rawPlaces],
   interests |->
     removeSubstringDuplicates(
       filterGenericWords(rawInterests, GENERIC_FILTERS.interests)),
   importantDates |-> removeSubstringDuplicates(rawDates),
   places |->
     removeSubstringDuplicates(
       filterGenericWords(rawPlaces, GENERIC_FILTERS.places)),
   notes |-> <<[value |-> input]>>]

\* Variant: the note is the cleaned text
extractStructuredData_CleanedNote(input) ==
  Classified(extract(input, PATTERNS.interests, KEYWORDS.interests),
             extract(input, PATTERNS.importantDates, KEYWORDS.importantDates),
             extract(input, PATTERNS.places, KEYWORDS.places),
             cleanExtractedValue(input))

extractStructuredData(input) ==
  Classified(extract(input, PATTERNS.interests, KEYWORDS.interests),
             extract(input, PATTERNS.importantDates, KEYWORDS.importantDates),
             extract(input, PATTERNS.places, KEYWORDS.places),
             input)

(***************************************************************************)
(* State.                                                                  *)
(***************************************************************************)
VARIABLES
  build,        \* which handler serves POST /extract: "index" or "routes"
  pc,           \* "idle", "awaitOllama" (inside await ollama.chat) or "done"
  bodyText,     \* req.body.text of the request being served
  chunks,       \* extractFactsFromText: chunks
  allFacts,     \* extractFactsFromText: allFacts
  merged,       \* extractFactsFromText: dedupedFacts, the facts it returns
  fabricated,   \* the facts dropped for a source_text absent from their chunk
  calls,        \* the chunks passed to ollama.chat so far, in call order
  replies,      \* the kind of reply each of those calls got
  received,     \* number of fact records received for this request
  raised,       \* which call of the handler's try block raised, or "none"
  response,     \* the response sent for this request
  failedBefore, \* an earlier request was answered 500
  rawItems,     \* part_001: rawInterests, rawDates and rawPlaces
  content       \* single-call services: response.message.content

\* The React client (App.tsx)
VARIABLES
  people,           \* useState<Person[]>
  messages,         \* useState<Message[]>
  selectedPersonId, \* useState<string | null>; 0 is null
  pending,          \* the handleConversationSubmit call awaiting fetch
  nextId,           \* generateId: the ids handed out so far
  journal,          \* bookkeeping of the model: what the last response did
  isSubmitting,     \* ConversationInput: useState(false)
  inFlight          \* the calls of onSubmit that have not settled

\* cleanExtractedValue applied once and twice
VARIABLES argument, cleanedOnce, cleanedTwice

\* POST /api/extract/facts: req.file of the request being served
VARIABLES file

clientVars ==
  <<people, messages, selectedPersonId, pending, nextId, journal, isSubmitting,
    inFlight>>
cleanVars == <<argument, cleanedOnce, cleanedTwice>>

vars ==
  <<build, pc, bodyText, chunks, allFacts, merged, fabricated, calls, replies,
    received, raised, response, failedBefore, rawItems, factTable, content,
    clientVars, cleanVars, file>>

NoFile ==
  [present |-> FALSE, mimetype |-> "", originalname |-> "", text |-> "",
   readable |-> TRUE]
NoPending == [active |-> FALSE, personId |-> 0, messageId |-> 0]
NoData == [interests |-> <<>>, importantDates |-> <<>>, places |-> <<>>, notes |-> <<>>]
\* data: the arrays of the last response merged; found: its person was still
\* there; selected: its person was still the selected one; overwrote: one of
\* its values was already stored; removed: messages were removed with a
\* person; failed: the last response was a failure; all of it since the last
\* submission
NoJournal ==
  [data |-> NoData, found |-> FALSE, selected |-> FALSE, overwrote |-> FALSE,
   removed |-> FALSE, failed |-> FALSE]

\* The client before any person is added
ClientStart ==
  /\ people = <<>>
  /\ messages = <<>>
  /\ selectedPersonId = 0
  /\ pending = NoPending
  /\ nextId = 0
  /\ journal = NoJournal
  /\ isSubmitting = FALSE
  /\ inFlight = 0

CleanStart == argument = "" /\ cleanedOnce = "" /\ cleanedTwice = ""

NoRawItems == [interests |-> <<>>, importantDates |-> <<>>, places |-> <<>>]

ServerStart(b, table) ==
  /\ build = b
  /\ pc = "idle"
  /\ bodyText = Undefined
  /\ chunks = <<>>
  /\ allFacts = <<>>
  /\ merged = <<>>
  /\ fabricated = {}
  /\ calls = <<>>
  /\ replies = <<>>
  /\ received = 0
  /\ raised = "none"
  /\ response = NoResponse
  /\ failedBefore = FALSE
  /\ rawItems = NoRawItems
  /\ factTable = table
  /\ content = ""
  /\ file = NoFile

InitWith(b, table) == ServerStart(b, table) /\ ClientStart /\ CleanStart

InitBuild(b) == InitWith(b, FactTable)

\* index.ts serves POST /extract
Init == InitBuild("index")
\* the router of ai.routes.ts serves POST /extract
InitRoutes == InitBuild("routes")
\* the server of part_001 serves POST /extract
InitDeterministic == InitBuild("part_001")

\* The catch block of the handler
Recover(message) ==
  IF build = "index" THEN FailureResponse(message) ELSE FailureResponseRoutes(message)

\* The end of the try block once every chunk is answered: dedupeFacts, the
\* return of extractFactsFromText, transformToFrontendFormat and res.json.
Finish(facts) ==
  LET dedupedFacts == dedupeFacts(facts)
      result == transformToFrontendFormat(dedupedFacts)
  IN /\ pc' = "done"
     /\ merged' = dedupedFacts
     /\ raised' = IF result.threw THEN "transformToFrontendFormat" ELSE "none"
     /\ response' = IF result.threw THEN Recover(result.message)
                    ELSE SuccessResponse(result)

\* Variant: the loop sends the chunk it has just sent once more
NextChunk_SameAgain(cs, k) == cs[IF k = 0 THEN 1 ELSE k]

\* for (const chunk of chunks): the chunk after chunk number k
NextChunk(cs, k) == cs[k + 1]

\* A request arrives: the handler runs up to its first await.
PostExtract(body) ==
  /\ pc = "idle"
  /\ bodyText' = body
  /\ IF (build = "index" /\ InvalidText(body))
        \/ (build = "routes" /\ InvalidTextRoutes(body))
     THEN /\ response' = IF build = "index" THEN ValidationResponse
                         ELSE ValidationResponseRoutes
          /\ pc' = "done"
          /\ UNCHANGED <<chunks, allFacts, merged, calls, raised>>
     ELSE LET cs == chunkTextForExtraction(body.s)
          IN /\ chunks' = cs
             /\ allFacts' = <<>>
             /\ IF Len(cs) = 0
                THEN Finish(<<>>) /\ UNCHANGED calls
                ELSE /\ calls' = <<NextChunk(cs, 0)>>
                     /\ pc' = "awaitOllama"
                     /\ UNCHANGED <<merged, raised, response>>
  /\ UNCHANGED <<build, fabricated, replies, received, failedBefore, rawItems,
                 factTable, content, clientVars, cleanVars, file>>

\* ollama.chat settles for the chunk last sent: the rest of
\* extractFactsFromSingleChunk, then the next loop iteration or the end.
OllamaSettles(reply) ==
  /\ pc = "awaitOllama"
  /\ replies' = Append(replies, reply.kind)
  /\ received' = received + Len(reply.facts)
  /\ IF Rejects(reply)
     THEN /\ raised' = "extractFactsFromText"
          /\ response' = Recover("fetch failed")
          /\ pc' = "done"
          /\ UNCHANGED <<allFacts, merged, fabricated, calls>>
     ELSE LET k == Len(calls)
              facts == allFacts \o chunkFacts(reply, chunks[k], k)
          IN /\ allFacts' = facts
             /\ fabricated' = fabricated \cup Fabricated(reply, chunks[k], k)
             /\ IF k < Len(chunks)
                THEN /\ calls' = Append(calls, NextChunk(chunks, k))
                     /\ UNCHANGED <<pc, merged, raised, response>>
                ELSE Finish(facts) /\ UNCHANGED calls
  /\ UNCHANGED <<build, bodyText, chunks, failedBefore, rawItems, factTable,
                 content, clientVars, cleanVars, file>>

\* The server holds no state between requests.
NextRequest ==
  /\ pc = "done"
  /\ pc' = "idle"
  /\ failedBefore' = (failedBefore \/ response.status = 500)
  /\ bodyText' = Undefined
  /\ chunks' = <<>>
  /\ allFacts' = <<>>
  /\ merged' = <<>>
  /\ fabricated' = {}
  /\ calls' = <<>>
  /\ replies' = <<>>
  /\ received' = 0
  /\ raised' = "none"
  /\ response' = NoResponse
  /\ rawItems' = NoRawItems
  /\ content' = ""
  /\ file' = NoFile
  /\ UNCHANGED <<build, factTable, clientVars, cleanVars>>

Next ==
  \/ \E body \in Bodies : PostExtract(body)
  \/ \E reply \in Replies(MaxFacts - received) : OllamaSettles(reply)
  \/ NextRequest

Spec == Init /\ [][Next]_vars
SpecRoutes == InitRoutes /\ [][Next]_vars

(***************************************************************************)
(* The server of part_001.                                                 *)
(***************************************************************************)
\* The most phrases a request text is made of.
MaxPhrases == 3

Phrases ==
  { "likes classical music", "and yoga", "playing often", "birthday 5/5",
    "visit Rome", "likes a lot" }

RECURSIVE JoinPhrases(_, _)
JoinPhrases(q, j) ==
  IF j > Len(q) THEN ""
  ELSE IF j = Len(q) THEN q[j]
  ELSE q[j] \o " " \o JoinPhrases(q, j + 1)

\* Texts of up to MaxPhrases different phrases
DeterministicBodies ==
  {Undefined, Str("  "), Str(" birthday  5/5, ")}
    \cup {Str(JoinPhrases(q, 1)) :
            q \in {r \in SeqsUpTo(Phrases, MaxPhrases) :
                     \A i, j \in 1..Len(r) : i # j => r[i] # r[j]}}

\* part_001: the 400 body is { error, message } alone
ValidationResponseDeterministic ==
  [NoResponse EXCEPT !.status = 400, !.error = "ValidationError",
     !.message = "Missing or invalid 'text' field in request body"]

\* The handler of part_001; it has no await.
PostExtractDeterministic(body) ==
  /\ pc = "idle"
  /\ build = "part_001"
  /\ bodyText' = body
  /\ pc' = "done"
  /\ IF InvalidText(body)
     THEN /\ response' = ValidationResponseDeterministic
          /\ UNCHANGED rawItems
     ELSE \E data \in {extractStructuredData(body.s)} :
             /\ rawItems' = data.raw
             /\ response' = SuccessResponse(data)
  /\ UNCHANGED <<build, chunks, allFacts, merged, fabricated, calls, replies,
                 received, raised, failedBefore, factTable, content, clientVars,
                 cleanVars, file>>

NextDeterministic ==
  \/ \E body \in DeterministicBodies : PostExtractDeterministic(body)
  \/ NextRequest

SpecDeterministic == InitDeterministic /\ [][NextDeterministic]_vars

(***************************************************************************)
(* The single-call services.  "legacy" is the second extractFactsFromText  *)
(* of ai.service.ts (lines 421-608: one call to the service, fact records, *)
(* type correction); "compound" is the service of part_006 (lines 180-305: *)
(* one call, entries tagged with several categories).  Both are served by  *)
(* the handler of index.ts.                                                *)
(***************************************************************************)
\* One element of the "entries" array: categories is an array of labels
Entry(text, labels, source) ==
  [obj |-> TRUE, text |-> text, source_text |-> source,
   categories |-> [isArray |-> TRUE, truthy |-> TRUE, items |-> labels]]
\* An entry whose categories field is missing (truthy = FALSE) or is a
\* non-empty string
EntryNoArray(text, truthy) ==
  [obj |-> TRUE, text |-> text, source_text |-> text,
   categories |-> [isArray |-> FALSE, truthy |-> truthy, items |-> <<>>]]
NotAnEntry ==
  [obj |-> FALSE, text |-> Undefined, source_text |-> Undefined,
   categories |-> [isArray |-> FALSE, truthy |-> FALSE, items |-> <<>>]]

\* What JSON.parse returns, as far as the code looks at it: the kind of the
\* root value and of its payload field, which of "facts" and "entries" the
\* payload carries, the kind of that field ("absent" is any falsy value)
\* and its elements (the object itself when the field is a single object).
Parsed(root, payload, field, list, items) ==
  [root |-> root, payload |-> payload, field |-> field, list |-> list,
   items |-> items]
SyntaxError == Parsed("SyntaxError", "absent", "none", "absent", <<>>)

\* The JSON documents of the model, each with the value JSON.parse gives
Documents ==
  LET sushi == Entry(Str(" loves sushi, went to Tokyo "), <<"interest", "place">>,
                     Str("I love sushi"))
      cats == Entry(Str("has two cats"), <<"family">>, Str("has two cats"))
      june == Entry(Str("birthday June 10th"), <<"note", "important_date", "note">>,
                    Str("her birthday is June 10th"))
      tennis == Entry(Str("plays tennis"), <<"Interest", "interest">>,
                      Str("He plays tennis"))
      tea == F("interest", "likes tea", "I like tea")
      hobby == F("hobby", "has two cats", "has two cats")
      born == F("hobby", " born 5/5", "born 5/5")
      dog == F("interest", "has a dog", "has a dog")
  IN {
   [text |-> "{\"payload\":{\"entries\":[{\"text\":\" loves sushi, went to Tokyo \",\"categories\":[\"interest\",\"place\"],\"source_text\":\"I love sushi\"},{\"text\":\"has two cats\",\"categories\":[\"family\"],\"source_text\":\"has two cats\"}]}}",
    value |-> Parsed("object", "object", "entries", "array", <<sushi, cats>>)],
   [text |-> "{\"payload\":{\"entries\":[{\"text\":\"birthday June 10th\",\"categories\":[\"note\",\"important_date\",\"note\"],\"source_text\":\"her birthday is June 10th\"},{\"text\":\"plays tennis\",\"categories\":[\"Interest\",\"interest\"],\"source_text\":\"He plays tennis\"},{\"text\":\" loves sushi, went to Tokyo \",\"categories\":[\"interest\",\"place\"],\"source_text\":\"I love sushi\"}]}}",
    value |-> Parsed("object", "object", "entries", "array", <<june, tennis, sushi>>)],
   [text |-> "{\"payload\":{\"entries\":[{\"text\":\"  \",\"categories\":[\"note\"]},{\"text\":\"null\",\"categories\":[\"note\"]},{\"text\":\"tea\",\"categories\":\"interest\"},{\"text\":\"yoga\",\"categories\":[]},null,{\"text\":\"has two cats\",\"categories\":[\"family\"],\"source_text\":\"has two cats\"}]}}",
    value |-> Parsed("object", "object", "entries", "array",
                     << Entry(Str("  "), <<"note">>, Undefined),
                        Entry(Str("null"), <<"note">>, Undefined),
                        EntryNoArray(Str("tea"), TRUE),
                        Entry(Str("yoga"), <<>>, Undefined),
                        NotAnEntry, cats >>)],
   [text |-> "{\"payload\":{\"entries\":[{\"text\":5,\"categories\":[\"note\"]}]}}",
    value |-> Parsed("object", "object", "entries", "array",
                     <<Entry(Num("5"), <<"note">>, Undefined)>>)],
   [text |-> "{\"payload\":{\"entries\":{\"text\":\"has two cats\",\"categories\":[\"family\"],\"source_text\":\"has two cats\"}}}",
    value |-> Parsed("object", "object", "entries", "object", <<cats>>)],
   [text |-> "{\"payload\":{\"entries\":{\"text\":\"tea\"}}}",
    value |-> Parsed("object", "object", "entries", "object", <<EntryNoArray(Str("tea"), FALSE)>>)],
   [text |-> "{\"payload\":{\"entries\":\"none\",\"facts\":\"none\"}}",
    value |-> Parsed("object", "object", "both", "string", <<>>)],
   [text |-> "{\"intent\":\"general\"}",
    value |-> Parsed("object", "absent", "none", "absent", <<>>)],
   [text |-> "{\"payload\":{}}",
    value |-> Parsed("object", "object", "none", "absent", <<>>)],
   [text |-> "{\"payload\":\"none\"}",
    value |-> Parsed("object", "string", "none", "absent", <<>>)],
   [text |-> "[]", value |-> Parsed("array", "absent", "none", "absent", <<>>)],
   [text |-> "null", value |-> Parsed("null", "absent", "none", "absent", <<>>)],
   [text |-> "42", value |-> Parsed("number", "absent", "none", "absent", <<>>)],
   [text |-> "{\"payload\":{\"facts\":[{\"type\":\"interest\",\"value\":\"likes tea\",\"source_text\":\"I like tea\"},{\"type\":\"hobby\",\"value\":\"has two cats\",\"source_text\":\"has two cats\"}]}}",
    value |-> Parsed("object", "object", "facts", "array", <<tea, hobby>>)],
   [text |-> "{\"payload\":{\"facts\":[{\"type\":\"hobby\",\"value\":\" born 5/5\",\"source_text\":\"born 5/5\"},null,{\"type\":\"interest\",\"value\":\"has a dog\",\"source_text\":\"has a dog\"},{\"type\":\"null\",\"value\":\"tea\"},{\"type\":\"note\",\"value\":\"null\"}]}}",
    value |-> Parsed("object", "object", "facts", "array",
                     << born, NotAnObject, dog,
                        Fact(Str("null"), Str("tea"), Undefined),
                        Fact(Str("note"), Str("null"), Undefined) >>)],
   [text |-> "{\"payload\":{\"facts\":{\"type\":\"interest\",\"value\":\"has a dog\",\"source_text\":\"has a dog\"}}}",
    value |-> Parsed("object", "object", "facts", "object", <<dog>>)],
   [text |-> "{\"payload\":{\"facts\":{\"value\":\"tea\"}}}",
    value |-> Parsed("object", "object", "facts", "object",
                     <<Fact(Undefined, Str("tea"), Undefined)>>)],
   [text |-> "{\"payload\":{\"facts\":{\"source_text\":\"tea\"}}}",
    value |-> Parsed("object", "object", "facts", "object",
                     <<Fact(Undefined, Undefined, Str("tea"))>>)],
   [text |-> "{\"payload\":{\"facts\":{\"type\":\"null\",\"value\":\"tea\"}}}",
    value |-> Parsed("object", "object", "facts", "object",
                     <<Fact(Str("null"), Str("tea"), Undefined)>>)],
   [text |-> "{\"payload\":{\"facts\":[{\"type\":\"note\",\"value\":5}]}}",
    value |-> Parsed("object", "object", "facts", "array",
                     <<Fact(Str("note"), Num("5"), Undefined)>>)] }

\* JSON.parse: surrounding whitespace is allowed; a text that is no JSON
\* document raises SyntaxError.
JSONparse(text) ==
  IF \E d \in Documents : d.text = trim(text)
  THEN (CHOOSE d \in Documents : d.text = trim(text)).value
  ELSE SyntaxError

\* jsonContent.match(/\{[\s\S]*\}/): from the first "{" to the last "}"
\* after it, or 0 when there is no such pair
LastBrace(s) ==
  LET first == FirstIndex(1, Len(s), [i \in 1..Len(s) |-> Chr(s, i) = "{"])
      closes == {i \in 1..Len(s) : Chr(s, i) = "}" /\ first # 0 /\ i > first}
  IN IF closes = {} THEN 0 ELSE CHOOSE i \in closes : \A j \in closes : j <= i

jsonContent(s) ==
  IF LastBrace(s) = 0 THEN s
  ELSE SubSeq(s, FirstIndex(1, Len(s), [i \in 1..Len(s) |-> Chr(s, i) = "{"]),
              LastBrace(s))

\* What ollama.chat gives: a rejection, or a reply with this content
Contents ==
  {d.text : d \in Documents}
    \cup {"Here is the JSON: " \o d.text \o "\nDone." : d \in Documents}
    \cup {"<think>{...}</think> " \o d.text : d \in {e \in Documents : Len(e.text) < 30}}
    \cup {"", "Sorry, I cannot help with that.", "{\"payload\":"}
ChatReplies ==
  {[rejects |-> TRUE, content |-> ""]}
    \cup {[rejects |-> FALSE, content |-> c] : c \in Contents}

SingleCallBuilds == {"legacy", "compound"}

\* Which field of the payload a build reads
ListOf(parsed, b) ==
  IF parsed.field \in {"both", IF b = "compound" THEN "entries" ELSE "facts"}
  THEN parsed.list ELSE "absent"

\* Variant: a single object is coerced when it has a type or a value
KeepsSingle_Either(item, b) ==
  IF b = "compound" THEN Truthy(item.text) \/ item.categories.truthy
  ELSE Truthy(item.type) \/ Truthy(item.value)

\* if (entryObj.text && entryObj.categories) / if (factObj.type && factObj.value)
KeepsSingle(item, b) ==
  IF b = "compound" THEN Truthy(item.text) /\ item.categories.truthy
  ELSE Truthy(item.type) /\ Truthy(item.value)

\* The filter of part_006: "keep", "drop", or "throw" when entry.text.trim
\* is called on a value that is not a string
KeepEntry(entry) ==
  IF ~entry.obj THEN "drop"
  ELSE IF ~Truthy(entry.text) \/ entry.text = Str("null") THEN "drop"
  ELSE IF entry.text.t # "string" THEN "throw"
  ELSE IF trim(entry.text.s) = "" THEN "drop"
  ELSE IF ~entry.categories.isArray \/ Len(entry.categories.items) = 0 THEN "drop"
  ELSE "keep"

\* The filter of the legacy service
KeepLegacyFact(fact) ==
  IF fact.obj /\ Truthy(fact.value) /\ fact.value # Str("null")
     /\ fact.type # Str("null")
  THEN "keep" ELSE "drop"

KeepItem(item, b) == IF b = "compound" THEN KeepEntry(item) ELSE KeepLegacyFact(item)

\* The outcome of extractFactsFromText: [kind, threw, message, items]
Outcome(kind, threw, message, items) ==
  [kind |-> kind, threw |-> threw, message |-> message, items |-> items]
InvalidJSON(kind) == Outcome(kind, TRUE, "AI returned invalid JSON", <<>>)

\* The filter over the coerced list; an exception inside it reaches the
\* catch block of extractFactsFromText.
Filtered(list, b) ==
  IF \E j \in 1..Len(list) : KeepItem(list[j], b) = "throw"
  THEN InvalidJSON("malformed")
  ELSE Outcome("parsed", FALSE, "", SelectSeq(list, LAMBDA x : KeepItem(x, b) = "keep"))

\* The body of the try block after JSON.parse.  Reading a property of null,
\* and creating one on a number or a string (the module is strict code),
\* raise TypeError.
Validated(parsed, b) ==
  IF parsed.root = "SyntaxError" THEN InvalidJSON("invalid")
  ELSE IF parsed.root \in {"null", "number"} \/ parsed.payload = "string"
       THEN InvalidJSON("malformed")
  ELSE IF parsed.payload = "absent" \/ ListOf(parsed, b) \in {"absent", "string"}
       THEN Outcome("parsed", FALSE, "", <<>>)
  ELSE IF ListOf(parsed, b) = "object" /\ ~KeepsSingle(parsed.items[1], b)
       THEN Outcome("parsed", FALSE, "", <<>>)
  ELSE Filtered(parsed.items, b)

\* Variant: extractFactsFromText without the catch block that rewrites the
\* exception; the parser's own message reaches the handler
extractFactsFromTextSingle_NoCatch(reply, b) ==
  IF reply.rejects THEN Outcome("raise", TRUE, "fetch failed", <<>>)
  ELSE [Validated(JSONparse(jsonContent(reply.content)), b)
          EXCEPT !.message = IF @ = "" THEN "" ELSE "Unexpected token"]

\* await ollama.chat(...) stands before the try block
extractFactsFromTextSingle(reply, b) ==
  IF reply.rejects THEN Outcome("raise", TRUE, "fetch failed", <<>>)
  ELSE Validated(JSONparse(jsonContent(reply.content)), b)

\* The patterns of the legacy validateAndCorrectFactType (lines 497-516);
\* its month pattern lists the words of DateMonthWord
LegacyDateKeywords ==
  << Wb,
     Words(<<"birthday", "bday", "b-day", "born", "anniversary", "wedding",
             "deadline", "due date", "holiday", "celebration">>),
     Wb >>
LegacyDateFormats ==
  << Wb,
     Alt(<< <<Rep(<<Digit>>, 1, 2, FALSE), Lit("/"), Rep(<<Digit>>, 1, 2, FALSE)>>,
            <<Rep(<<Digit>>, 1, 2, FALSE), Lit("th")>>,
            <<Rep(<<Digit>>, 1, 2, FALSE), Lit("st")>>,
            <<Rep(<<Digit>>, 1, 2, FALSE), Lit("nd")>>,
            <<Rep(<<Digit>>, 1, 2, FALSE), Lit("rd")>> >>),
     Wb >>
LegacyPlaceVerbs ==
  << Wb,
     Words(<<"went to", "visited", "traveled to", "travelled to", "lives in",
             "from", "works at", "moved to", "based in">>),
     Wb >>

\* The chain of tests of the legacy version; a fact that matches no pattern
\* keeps the type the service gave it.
LegacyCorrectedType(fact, lowered) ==
  IF test(LegacyDateKeywords, lowered) \/ test(DateMonthWord, lowered)
     \/ test(LegacyDateFormats, lowered)
  THEN "important_date"
  ELSE IF test(LegacyPlaceVerbs, lowered) THEN "place"
  ELSE IF test(InterestVerbs, lowered) THEN "interest"
  ELSE IF fact.type.t = "string" THEN fact.type.s
  ELSE "(" \o fact.type.t \o ")"

validateAndCorrectFactTypeLegacy(fact) ==
  IF factText(fact).t # "string" THEN "TypeError"
  ELSE LegacyCorrectedType(fact, toLowerCase(factText(fact).s))

\* switch (correctedType) with its default branch
Routed(result, type, item) ==
  CASE type = "interest" -> [result EXCEPT !.interests = Append(@, item)]
    [] type = "important_date" -> [result EXCEPT !.importantDates = Append(@, item)]
    [] type = "place" -> [result EXCEPT !.places = Append(@, item)]
    [] OTHER -> [result EXCEPT !.notes = Append(@, item)]

RECURSIVE TransformLegacyFrom(_, _, _)
TransformLegacyFrom(facts, j, result) ==
  IF j > Len(facts) THEN result
  ELSE IF ~facts[j].obj \/ ~Truthy(facts[j].value)
       THEN TransformLegacyFrom(facts, j + 1, result)
  ELSE IF validateAndCorrectFactTypeLegacy(facts[j]) = "TypeError"
       THEN Thrown("toLowerCase is not a function")
  ELSE IF facts[j].value.t # "string"
       THEN Thrown("fact.value.trim is not a function")
  ELSE TransformLegacyFrom(facts, j + 1,
         Routed(result, validateAndCorrectFactTypeLegacy(facts[j]),
                [value |-> trim(facts[j].value.s), src |-> j]))

\* Variant: the first category of an entry alone, as the single-category
\* transform did
RoutedToAll_FirstOnly(result, labels, k, item) ==
  IF Len(labels) = 0 THEN result ELSE Routed(result, labels[1], item)

\* for (const category of entry.categories) switch (category): the switch
\* of part_006 has no default branch
RECURSIVE RoutedToAll(_, _, _, _)
RoutedToAll(result, labels, k, item) ==
  IF k > Len(labels) THEN result
  ELSE RoutedToAll(IF labels[k] \in AllowedTypes THEN Routed(result, labels[k], item)
                   ELSE result,
                   labels, k + 1, item)

RECURSIVE TransformEntriesFrom(_, _, _)
TransformEntriesFrom(entries, j, result) ==
  IF j > Len(entries) THEN result
  ELSE IF ~entries[j].obj \/ ~Truthy(entries[j].text)
       THEN TransformEntriesFrom(entries, j + 1, result)
  ELSE IF entries[j].text.t # "string"
       THEN Thrown("entry.text.trim is not a function")
  ELSE IF ~entries[j].categories.isArray
       THEN Thrown("entry.categories is not iterable")
  ELSE TransformEntriesFrom(entries, j + 1,
         RoutedToAll(result, entries[j].categories.items, 1,
                     [value |-> trim(entries[j].text.s), src |-> j]))

transformToFrontendFormatSingle(items, b) ==
  IF b = "compound" THEN TransformEntriesFrom(items, 1, EmptyResult)
  ELSE TransformLegacyFrom(items, 1, EmptyResult)

\* The try block of the handler after extractFactsFromText has settled
Answer(outcome, result) ==
  IF outcome.threw THEN FailureResponse(outcome.message)
  ELSE IF result.threw THEN FailureResponse(result.message)
  ELSE SuccessResponse(result)

\* A request arrives at a single-call build: the handler of index.ts up to
\* await ollama.chat.
PostExtractSingle(body) ==
  /\ pc = "idle"
  /\ build \in SingleCallBuilds
  /\ bodyText' = body
  /\ IF InvalidText(body)
     THEN /\ response' = ValidationResponse
          /\ pc' = "done"
          /\ UNCHANGED calls
     ELSE /\ calls' = <<body.s>>
          /\ pc' = "awaitOllama"
          /\ UNCHANGED response
  /\ UNCHANGED <<build, chunks, allFacts, merged, fabricated, replies, received,
                 raised, failedBefore, rawItems, factTable, content, clientVars,
                 cleanVars, file>>

\* ollama.chat settles: the rest of extractFactsFromText, then
\* transformToFrontendFormat and the response.
ChatSettles(reply) ==
  /\ pc = "awaitOllama"
  /\ build \in SingleCallBuilds
  /\ content' = reply.content
  /\ \E outcome \in {extractFactsFromTextSingle(reply, build)} :
       /\ replies' = <<outcome.kind>>
       /\ merged' = outcome.items
       /\ \E result \in {transformToFrontendFormatSingle(outcome.items, build)} :
            /\ raised' = IF outcome.threw THEN "extractFactsFromText"
                         ELSE IF result.threw THEN "transformToFrontendFormat"
                         ELSE "none"
            /\ response' = Answer(outcome, result)
  /\ pc' = "done"
  /\ UNCHANGED <<build, bodyText, chunks, allFacts, fabricated, calls, received,
                 failedBefore, rawItems, factTable, clientVars, cleanVars, file>>

NextSingle ==
  \/ \E body \in Bodies : PostExtractSingle(body)
  \/ \E reply \in ChatReplies : ChatSettles(reply)
  \/ build \in SingleCallBuilds /\ NextRequest

\* Every service of the repository behind the handler of index.ts: the
\* chunked service, the legacy service and the compound service.
InitServices ==
  \E b \in {"index"} \cup SingleCallBuilds : InitBuild(b)

NextServices ==
  \/ build = "index" /\ Next
  \/ NextSingle

SpecServices == InitServices /\ [][NextServices]_vars

(***************************************************************************)
(* The React client: App.tsx with the guards of Sidebar, EditableList and  *)
(* ConversationInput (part_008).  A person is [id, interests,              *)
(* importantDates, places, notes] (its name plays no part), an item is     *)
(* [id, value, messageId], a message is [id, personId, text].              *)
(***************************************************************************)
\* The ids generateId hands out in one run
MaxIds == 5

ItemTypes == <<"interests", "importantDates", "places", "notes">>
Ids(list) == {list[i].id : i \in 1..Len(list)}

NewPerson(id) ==
  [id |-> id, interests |-> <<>>, importantDates |-> <<>>, places |-> <<>>,
   notes |-> <<>>]

\* What fetch gives: a rejection, a response that is not ok, or a body
\* whose category fields are arrays of { value } or something else
Field(items) == [isArray |-> TRUE, items |-> items]
NotAnArray == [isArray |-> FALSE, items |-> <<>>]
Body(interests, importantDates, places, notes) ==
  [kind |-> "ok", interests |-> interests, importantDates |-> importantDates,
   places |-> places, notes |-> notes]
Responses ==
  { [Body(NotAnArray, NotAnArray, NotAnArray, NotAnArray) EXCEPT !.kind = "rejected"],
    [Body(Field(<<>>), Field(<<>>), Field(<<>>), Field(<<>>)) EXCEPT !.kind = "not ok"],
    Body(Field(<<>>), Field(<<>>), Field(<<>>), Field(<<>>)),
    Body(Field(<<"sushi">>), NotAnArray, Field(<<>>), Field(<<>>)),
    Body(Field(<<"sushi", "tea">>), Field(<<>>), Field(<<>>), Field(<<>>)),
    Body(Field(<<"tea", "tea">>), Field(<<>>), Field(<<>>), Field(<<>>)),
    Body(Field(<<>>), Field(<<"5/5">>), Field(<<"sushi">>), Field(<<"tea">>)) }
Texts == {"I like tea", "  "}
EditValues == {"sushi", "tea"}

\* Array.isArray(data?.interests) ? data.interests : []
Safe(field) == IF field.isArray THEN field.items ELSE <<>>
SafeData(r) ==
  [interests |-> Safe(r.interests), importantDates |-> Safe(r.importantDates),
   places |-> Safe(r.places), notes |-> Safe(r.notes)]

\* safeInterests.map(...): ids come from generateId, after the ids so far
NewItems(values, base, messageId) ==
  [k \in 1..Len(values) |->
     [id |-> base + k, value |-> values[k], messageId |-> messageId]]

\* Variant: the first item with a value is kept
Inserted_KeepFirst(seen, item) ==
  IF \E i \in 1..Len(seen) : seen[i].value = item.value THEN seen
  ELSE Append(seen, item)

\* seen.set(item.value, item): a Map keeps the place of a key it already
\* has and replaces its value
Inserted(seen, item) ==
  IF \E i \in 1..Len(seen) : seen[i].value = item.value
  THEN [i \in 1..Len(seen) |-> IF seen[i].value = item.value THEN item ELSE seen[i]]
  ELSE Append(seen, item)

RECURSIVE DeduplicateFrom(_, _, _)
DeduplicateFrom(items, j, seen) ==
  IF j > Len(items) THEN seen
  ELSE DeduplicateFrom(items, j + 1, Inserted(seen, items[j]))

deduplicateItems(items) == DeduplicateFrom(items, 1, <<>>)

\* The person after the merge of handleConversationSubmit
MergedPerson(person, data, base, messageId) ==
  [person EXCEPT
     !.interests = deduplicateItems(@ \o NewItems(data.interests, base, messageId)),
     !.importantDates =
        deduplicateItems(@ \o NewItems(data.importantDates,
                                       base + Len(data.interests), messageId)),
     !.places =
        deduplicateItems(@ \o NewItems(data.places,
                                       base + Len(data.interests)
                                         + Len(data.importantDates), messageId)),
     !.notes =
        deduplicateItems(@ \o NewItems(data.notes,
                                       base + Len(data.interests)
                                         + Len(data.importantDates)
                                         + Len(data.places), messageId))]

ItemCount(data) ==
  Len(data.interests) + Len(data.importantDates) + Len(data.places) + Len(data.notes)

\* Variant: the person selected when the response arrives
MergeTarget_CurrentSelection == selectedPersonId

\* Variant: the first person of the list
MergeTarget_FirstPerson == IF people = <<>> THEN 0 ELSE people[1].id

\* The closure of handleConversationSubmit holds the selectedPersonId of
\* the render that submitted
MergeTarget == pending.personId

\* Variant: every message is removed
KeepsMessage_None(m, personId) == FALSE

\* prev.filter((m) => m.personId !== personId)
KeepsMessage(m, personId) == m.personId # personId

serverVars ==
  <<build, pc, bodyText, chunks, allFacts, merged, fabricated, calls, replies,
    received, raised, response, failedBefore, rawItems, factTable, content,
    file>>

\* Variant: removing the selected person clears the selection
remainingSelection_Null(remainingPeople) == 0

\* remainingPeople.length > 0 ? remainingPeople[0].id : null
remainingSelection(remainingPeople) ==
  IF Len(remainingPeople) > 0 THEN remainingPeople[1].id ELSE 0

\* Variant: a failure empties the store
onFailure_Cleared(store) == <<>>

\* if (!response.ok) { ...; return; } and catch (error) { }: a failure
\* leaves the stores as they are
onFailure(store) == store

handleAddPerson ==
  /\ nextId < MaxIds
  /\ nextId' = nextId + 1
  /\ people' = Append(people, NewPerson(nextId + 1))
  /\ selectedPersonId' = nextId + 1
  /\ UNCHANGED <<messages, pending, journal>>
  /\ UNCHANGED <<isSubmitting, inFlight>>
  /\ UNCHANGED <<serverVars, cleanVars>>

handleRemovePerson(personId) ==
  /\ personId \in Ids(people)
  /\ people' = SelectSeq(people, LAMBDA p : p.id # personId)
  /\ messages' = SelectSeq(messages, LAMBDA m : KeepsMessage(m, personId))
  /\ journal' = [journal EXCEPT !.removed = @ \/ messages' # messages]
  /\ selectedPersonId' =
       IF selectedPersonId # personId THEN selectedPersonId
       ELSE remainingSelection(people')
  /\ UNCHANGED <<pending, nextId>>
  /\ UNCHANGED <<isSubmitting, inFlight>>
  /\ UNCHANGED <<serverVars, cleanVars>>

\* Sidebar: onSelectPerson
selectPerson(personId) ==
  /\ personId \in Ids(people)
  /\ selectedPersonId' = personId
  /\ UNCHANGED <<people, messages, pending, nextId, journal>>
  /\ UNCHANGED <<isSubmitting, inFlight>>
  /\ UNCHANGED <<serverVars, cleanVars>>

\* Variant: handleSubmit without the test of isSubmitting
Ignored_WhileSubmittingToo(text) == selectedPersonId = 0 \/ trim(text) = ""

\* if (!selectedPersonId || !message.trim() || isSubmitting) return
Ignored(text) == selectedPersonId = 0 \/ trim(text) = "" \/ isSubmitting

\* handleSubmit of ConversationInput and, inside it, handleConversationSubmit
\* up to await fetch
handleConversationSubmit(text) ==
  /\ ~Ignored(text)
  /\ isSubmitting' = TRUE
  /\ inFlight' = inFlight + 1
  /\ nextId < MaxIds
  /\ nextId' = nextId + 1
  /\ messages' = Append(messages, [id |-> nextId + 1, personId |-> selectedPersonId,
                                   text |-> text])
  /\ pending' = [active |-> TRUE, personId |-> selectedPersonId,
                 messageId |-> nextId + 1]
  /\ journal' = NoJournal
  /\ UNCHANGED <<people, selectedPersonId>>
  /\ UNCHANGED <<serverVars, cleanVars>>

\* fetch settles: the rest of handleConversationSubmit, then the finally
\* block of handleSubmit
fetchSettles(r) ==
  /\ pending.active
  /\ pending' = NoPending
  /\ isSubmitting' = FALSE
  /\ inFlight' = inFlight - 1
  /\ IF r.kind # "ok"
     THEN /\ people' = onFailure(people)
          /\ messages' = onFailure(messages)
          /\ journal' = [journal EXCEPT !.failed = TRUE]
          /\ UNCHANGED nextId
     ELSE /\ nextId + ItemCount(SafeData(r)) <= MaxIds
          /\ UNCHANGED messages
          /\ nextId' = nextId + ItemCount(SafeData(r))
          /\ people' = [i \in 1..Len(people) |->
                          IF people[i].id = MergeTarget
                          THEN MergedPerson(people[i], SafeData(r), nextId,
                                            pending.messageId)
                          ELSE people[i]]
          /\ journal' =
               [journal EXCEPT
                  !.data = SafeData(r),
                  !.found = MergeTarget \in Ids(people),
                  !.selected = selectedPersonId = MergeTarget,
                  !.overwrote =
                     \E i \in 1..Len(people) :
                        /\ people[i].id = MergeTarget
                        /\ \E c \in 1..4 :
                              \E k \in 1..Len(SafeData(r)[ItemTypes[c]]) :
                                 \E x \in 1..Len(people[i][ItemTypes[c]]) :
                                    people[i][ItemTypes[c]][x].value
                                      = SafeData(r)[ItemTypes[c]][k]]
  /\ UNCHANGED selectedPersonId
  /\ UNCHANGED <<serverVars, cleanVars>>

\* EditableList saves a non-empty trimmed value for an item of the selected
\* person
updateItem(itemId, newValue, itemType) ==
  /\ selectedPersonId # 0
  /\ \E i \in 1..Len(people) :
        people[i].id = selectedPersonId /\ itemId \in Ids(people[i][itemType])
  /\ people' = [i \in 1..Len(people) |->
                  IF people[i].id = selectedPersonId
                  THEN [people[i] EXCEPT ![itemType] =
                          [k \in 1..Len(@) |->
                             IF @[k].id = itemId THEN [@[k] EXCEPT !.value = newValue]
                             ELSE @[k]]]
                  ELSE people[i]]
  /\ UNCHANGED <<messages, selectedPersonId, pending, nextId, journal>>
  /\ UNCHANGED <<isSubmitting, inFlight>>
  /\ UNCHANGED <<serverVars, cleanVars>>

handleDeleteItem(itemId, itemType) ==
  /\ selectedPersonId # 0
  /\ \E i \in 1..Len(people) :
        people[i].id = selectedPersonId /\ itemId \in Ids(people[i][itemType])
  /\ people' = [i \in 1..Len(people) |->
                  IF people[i].id = selectedPersonId
                  THEN [people[i] EXCEPT ![itemType] =
                          SelectSeq(@, LAMBDA item : item.id # itemId)]
                  ELSE people[i]]
  /\ UNCHANGED <<messages, selectedPersonId, pending, nextId, journal>>
  /\ UNCHANGED <<isSubmitting, inFlight>>
  /\ UNCHANGED <<serverVars, cleanVars>>

InitClient == InitBuild("client")

NextClient ==
  \/ handleAddPerson
  \/ \E personId \in 1..MaxIds : handleRemovePerson(personId)
  \/ \E personId \in 1..MaxIds : selectPerson(personId)
  \/ \E text \in Texts : handleConversationSubmit(text)
  \/ \E r \in Responses : fetchSettles(r)
  \/ \E itemId \in 1..MaxIds, newValue \in EditValues, c \in 1..4 :
        updateItem(itemId, newValue, ItemTypes[c])
  \/ \E itemId \in 1..MaxIds, c \in 1..4 : handleDeleteItem(itemId, ItemTypes[c])

SpecClient == InitClient /\ [][NextClient]_vars

\* The promise of fetch settles: the browser resolves or rejects it
SpecClientFair == SpecClient /\ WF_vars(\E r \in Responses : fetchSettles(r))

(***************************************************************************)
(* chunkTextForExtraction on its own, on texts with sentences and clause   *)
(* parts of every length class: a text is a sequence of runs of one        *)
(* letter, each followed by a separator.                                   *)
(***************************************************************************)
\* The most runs a text is made of
MaxRuns == 2

RunLengths == {4, 60, 181}
RunEnds == {" ", ", ", ". ", " and "}

RECURSIVE Letters(_)
Letters(n) ==
  IF n = 0 THEN ""
  ELSE IF n = 1 THEN "a"
  ELSE Letters(n \div 2) \o Letters(n - n \div 2)

RECURSIVE TextsOfRuns(_)
TextsOfRuns(n) ==
  IF n = 0 THEN {""}
  ELSE {""} \cup {Letters(len) \o end \o rest :
                    len \in RunLengths, end \in RunEnds, rest \in TextsOfRuns(n - 1)}

InitChunk ==
  /\ ServerStart("chunk", FactTable)
  /\ ClientStart
  /\ argument \in TextsOfRuns(MaxRuns)
  /\ cleanedOnce = ""
  /\ cleanedTwice = ""

\* const chunks = chunkTextForExtraction(text)
ChunkText ==
  /\ pc = "idle"
  /\ pc' = "done"
  /\ chunks' = chunkTextForExtraction(argument)
  /\ UNCHANGED <<build, bodyText, allFacts, merged, fabricated, calls, replies,
                 received, raised, response, failedBefore, rawItems, factTable,
                 content, clientVars, cleanVars, file>>

NextChunkText == ChunkText

SpecChunk == InitChunk /\ [][NextChunkText]_vars

(***************************************************************************)
(* POST /api/extract/facts (extract.routes.ts) with fileTextExtractor.ts.  *)
(* A file is [present, mimetype, originalname, text, readable]: text is    *)
(* what the parser of its type reads from the buffer, readable is FALSE    *)
(* when that parser raises.                                                *)
(***************************************************************************)
endsWith(s, suffix) ==
  Len(s) >= Len(suffix) /\ SubSeq(s, Len(s) - Len(suffix) + 1, Len(s)) = suffix

DocxMime == "application/vnd.openxmlformats-officedocument.wordprocessingml.document"

\* null is "none"
detectFileType(mime, filename) ==
  IF mime = "text/plain" \/ endsWith(toLowerCase(filename), ".txt")
     \/ endsWith(toLowerCase(filename), ".md")
  THEN "text"
  ELSE IF mime = "application/pdf" \/ endsWith(toLowerCase(filename), ".pdf")
  THEN "pdf"
  ELSE IF mime = DocxMime \/ endsWith(toLowerCase(filename), ".docx")
  THEN "docx"
  ELSE "none"

\* .replace(/\r/g, "\n")
replaceReturns(s) ==
  JoinRange([i \in 1..Len(s) |-> IF Chr(s, i) = "\r" THEN "\n" ELSE Chr(s, i)],
            1, Len(s))

\* .replace(/[ \t]+/g, " ")
collapseBlanks(s) ==
  JoinRange([i \in 1..Len(s) |->
               IF Chr(s, i) \notin {" ", "\t"} THEN Chr(s, i)
               ELSE IF i > 1 /\ Chr(s, i - 1) \in {" ", "\t"} THEN "" ELSE " "],
            1, Len(s))

\* .replace(/\n{3,}/g, "\n\n")
collapseNewlines(s) ==
  JoinRange([i \in 1..Len(s) |->
               IF i > 2 /\ SubSeq(s, i - 2, i) = "\n\n\n" THEN "" ELSE Chr(s, i)],
            1, Len(s))

normalizeExtractedText(s) == trim(collapseNewlines(collapseBlanks(replaceReturns(s))))

\* extractTextFromBuffer, when the parser does not raise
extractTextFromBuffer(f) == trim(f.text)

UploadCap == 12000

\* Variant: the text is passed on whole
capped_Whole(s) == s

\* text.length > 12000 ? text.slice(0, 12000) : text
capped(s) == IF Len(s) > UploadCap THEN SubSeq(s, 1, UploadCap) ELSE s

Mimes == {"text/plain", "application/pdf", DocxMime, "image/png"}
Names == {"notes.txt", "README.MD", "cv.PDF", "letter.docx", "photo.png"}
ShortFileTexts ==
  {"", " \t\r\n ", "Hello", "I like tea.\r\n\r\n\r\nI am  from Rome!"}
LongFileTexts ==
  {Letters(UploadCap + 1), Letters(UploadCap - 10) \o ". I like tea. I am from Rome!"}

Upload(mime, name, text, readable) ==
  [present |-> TRUE, mimetype |-> mime, originalname |-> name, text |-> text,
   readable |-> readable]

\* A text file is read with buf.toString, which does not raise
Files ==
  {NoFile}
    \cup {Upload(m, n, t, TRUE) : m \in Mimes, n \in Names, t \in ShortFileTexts}
    \cup {Upload(m, n, "Hello", FALSE) :
            m \in Mimes \ {"text/plain"}, n \in {"cv.PDF", "letter.docx"}}
    \cup {Upload("text/plain", "notes.txt", t, TRUE) : t \in LongFileTexts}

UploadReplies ==
  { Reply("raise", <<>>), Reply("invalid", <<>>), Reply("nofacts", <<>>),
    Reply("facts", <<F("interest", "likes tea", "I like tea")>>),
    Reply("facts", <<F("place", "from Rome", "I am from Rome"),
                     F("interest", "likes tea", "I like tea")>>) }

UploadError(status, error) == [NoResponse EXCEPT !.status = status, !.error = error]
\* res.json({ type, extracted_text_length, extracted_text_preview, ai_result })
UploadAnswer == [NoResponse EXCEPT !.status = 200]

\* extractFactsFromText(capped) up to its first await, or to its end when
\* there is no chunk
UploadExtract(text, cs) ==
  /\ bodyText' = Str(text)
  /\ chunks' = cs
  /\ IF Len(cs) = 0
     THEN /\ pc' = "done"
          /\ response' = UploadAnswer
          /\ UNCHANGED calls
     ELSE /\ pc' = "awaitOllama"
          /\ calls' = <<NextChunk(cs, 0)>>
          /\ UNCHANGED response

UploadRefused(status, error) ==
  /\ pc' = "done"
  /\ response' = UploadError(status, error)
  /\ UNCHANGED <<bodyText, chunks, calls>>

\* A request arrives: the handler runs up to its first await on the
\* external service.
PostExtractFacts(f) ==
  /\ pc = "idle"
  /\ build = "upload"
  /\ file' = f
  /\ IF ~f.present
     THEN UploadRefused(400, "No file uploaded. Use form-data key 'file'.")
     ELSE IF detectFileType(f.mimetype, f.originalname) = "none"
     THEN UploadRefused(415, "Unsupported file type. Use .txt, .pdf, or .docx")
     ELSE IF ~f.readable
     THEN UploadRefused(500, "Failed to extract facts")
     ELSE \E text \in {normalizeExtractedText(extractTextFromBuffer(f))} :
            IF text = ""
            THEN UploadRefused(400, "No extractable text found in file.")
            ELSE UploadExtract(capped(text), chunkTextForExtraction(capped(text)))
  /\ UNCHANGED <<build, allFacts, merged, fabricated, replies, received, raised,
                 failedBefore, rawItems, factTable, content, clientVars, cleanVars>>

\* ollama.chat settles for the chunk last sent: the rest of the loop, then
\* the answer of the route.
UploadSettles(reply) ==
  /\ pc = "awaitOllama"
  /\ build = "upload"
  /\ replies' = Append(replies, reply.kind)
  /\ received' = received + Len(reply.facts)
  /\ IF Rejects(reply)
     THEN /\ raised' = "extractFactsFromText"
          /\ response' = UploadError(500, "Failed to extract facts")
          /\ pc' = "done"
          /\ UNCHANGED <<allFacts, merged, calls>>
     ELSE /\ allFacts' = allFacts \o chunkFacts(reply, chunks[Len(calls)], Len(calls))
          /\ IF Len(calls) < Len(chunks)
             THEN /\ calls' = Append(calls, NextChunk(chunks, Len(calls)))
                  /\ UNCHANGED <<pc, merged, raised, response>>
             ELSE /\ merged' = dedupeFacts(allFacts')
                  /\ response' = UploadAnswer
                  /\ pc' = "done"
                  /\ UNCHANGED <<calls, raised>>
  /\ UNCHANGED <<build, bodyText, chunks, fabricated, failedBefore, rawItems,
                 factTable, content, clientVars, cleanVars, file>>

InitUpload == InitBuild("upload")

NextUpload ==
  \/ \E f \in Files : PostExtractFacts(f)
  \/ \E reply \in UploadReplies : UploadSettles(reply)
  \/ build = "upload" /\ NextRequest

SpecUpload == InitUpload /\ [][NextUpload]_vars

(***************************************************************************)
(* The value cleaning of part_001 on its own: cleanExtractedValue applied  *)
(* to a string, and again to its own result.                               *)
(***************************************************************************)
\* The longest string cleaned
MaxLen == 4

CleanAlphabet == {"a", " ", ".", "!"}

RECURSIVE StringsUpTo(_)
StringsUpTo(n) ==
  IF n = 0 THEN {""}
  ELSE StringsUpTo(n - 1)
         \cup {s \o c : s \in {x \in StringsUpTo(n - 1) : Len(x) = n - 1},
                        c \in CleanAlphabet}

InitClean ==
  /\ ServerStart("part_001", FactTable)
  /\ ClientStart
  /\ argument \in StringsUpTo(MaxLen)
  /\ cleanedOnce = ""
  /\ cleanedTwice = ""

CleanTwice ==
  /\ cleanedOnce' = cleanExtractedValue(argument)
  /\ cleanedTwice' = cleanExtractedValue(cleanExtractedValue(argument))
  /\ UNCHANGED <<argument, serverVars, clientVars>>

NextClean == CleanTwice

SpecClean == InitClean /\ [][NextClean]_vars

(***************************************************************************)
(* Properties of the model-backed POST /extract.                           *)
(***************************************************************************)
Categories(r) == <<r.interests, r.importantDates, r.places, r.notes>>
AllEmpty(r) == \A c \in 1..4 : Categories(r)[c] = <<>>

\* C1: every response to POST /extract, whatever its status, carries the
\* four array fields interests, importantDates, places and notes.  The
\* router of ai.routes.ts answers 400 with { error } alone.
C1_FourArraysAlways == pc = "done" => response.arrays

\* The 400 response of ai.routes.ts, for a request without text
C1_RoutesReject ==
  /\ build = "routes" /\ pc = "done" /\ response.status = 400
  /\ bodyText = Undefined

\* Missing, not a string, empty, or nothing but whitespace
C2_Rejected(v) ==
  v.t # "string" \/ \A i \in 1..Len(v.s) : Chr(v.s, i) \in SpaceSet

\* C2: a request whose text is missing, not a string, empty or only
\* whitespace is answered 400 with error "ValidationError" and four empty
\* arrays, and no chunk of it is ever passed to the external service.
C2_ValidationEnvelope ==
  (pc # "idle" /\ C2_Rejected(bodyText)) =>
     /\ pc = "done"
     /\ response.status = 400
     /\ response.error = "ValidationError"
     /\ response.arrays /\ AllEmpty(response)
     /\ calls = <<>> /\ replies = <<>>

C2_Witness ==
  /\ pc = "done" /\ bodyText = Str("  \n")
  /\ response.status = 400 /\ calls = <<>>

\* C3: when extractFactsFromText or transformToFrontendFormat raises, the
\* response is 500 with error "AI extraction failed" and four empty arrays;
\* and whether or not an earlier request failed, a request is answered by
\* its own outcome alone: 400 for rejected text, 500 for a raise, else 200.
C3_FailureEnvelope ==
  pc = "done" =>
     /\ raised # "none" =>
          /\ response.status = 500
          /\ response.error = "AI extraction failed"
          /\ response.arrays /\ AllEmpty(response)
     /\ response.status =
          IF C2_Rejected(bodyText) THEN 400
          ELSE IF raised # "none" THEN 500 ELSE 200

\* After a request answered 500, transformToFrontendFormat raises for the
\* next one and it too gets the 500 envelope
C3_Witness ==
  /\ failedBefore /\ pc = "done"
  /\ raised = "transformToFrontendFormat"
  /\ response.status = 500 /\ response.arrays

\* source_text occurs verbatim in the chunk the fact was returned for
C4_Verbatim(e) ==
  /\ e.k \in 1..Len(chunks)
  /\ includes(chunks[e.k], e.f.source_text.s)

\* C4: a fact whose source_text is not a verbatim substring of the chunk
\* sent to the service is neither among the facts extractFactsFromText
\* collects and returns nor behind any item of a response category.
C4_NoFabricatedFact ==
  /\ \A j \in 1..Len(allFacts) : C4_Verbatim(allFacts[j])
  /\ \A j \in 1..Len(merged) : C4_Verbatim(merged[j])
  /\ \A c \in 1..4 : \A j \in 1..Len(Categories(response)[c]) :
        C4_Verbatim(Categories(response)[c][j].src)
  /\ \A e \in fabricated :
        /\ \A j \in 1..Len(merged) : merged[j] # e
        /\ \A c \in 1..4 : \A j \in 1..Len(Categories(response)[c]) :
              Categories(response)[c][j].src # e

\* The service returned "from Rome" for the chunk "I like tea."; the request
\* is answered 200 with another fact and without that one
C4_Witness ==
  /\ pc = "done" /\ response.status = 200
  /\ [f |-> F("place", "from Rome", "I am from Rome"), k |-> 1] \in fabricated
  /\ response.interests # <<>> /\ response.places = <<>>

C5_Failed(j) == replies[j] \in {"raise", "invalid"}

\* C5 as stated: when one chunk fails, because the call to the service
\* raises or because its reply is not parseable JSON, the chunk contributes
\* no fact, every remaining chunk is still submitted, and the failure does
\* not abort the request.
C5_ChunkFailureNeverAborts ==
  \A j \in 1..Len(replies) :
     C5_Failed(j) =>
        /\ \A i \in 1..Len(allFacts) : allFacts[i].k # j
        /\ raised # "extractFactsFromText"
        /\ pc = "done" => Len(calls) = Len(chunks)

\* C5, amended: a chunk whose reply is not parseable JSON contributes no
\* fact, every remaining chunk is still submitted and the facts of the other
\* chunks are returned; a call to the service that raises ends the loop: no
\* later chunk is submitted and the request is answered 500.
C5_UnparseableSkippedRaiseAborts ==
  /\ \A j \in 1..Len(replies) :
        replies[j] = "invalid" =>
           /\ \A i \in 1..Len(allFacts) : allFacts[i].k # j
           /\ j < Len(chunks) => Len(calls) > j
  /\ (pc = "done" /\ calls # <<>> /\ \A j \in 1..Len(replies) : replies[j] # "raise") =>
        /\ Len(calls) = Len(chunks) /\ Len(replies) = Len(chunks)
        /\ raised # "extractFactsFromText"
        /\ \A i \in 1..Len(allFacts) :
              \/ \E m \in 1..Len(merged) : merged[m] = allFacts[i]
              \/ Row(allFacts[i].f).dedupeValue = ""
              \/ \E h \in 1..(i - 1) :
                    /\ Row(allFacts[h].f).dedupeType = Row(allFacts[i].f).dedupeType
                    /\ Row(allFacts[h].f).dedupeValue = Row(allFacts[i].f).dedupeValue
  /\ \A j \in 1..Len(replies) :
        replies[j] = "raise" =>
           /\ j = Len(replies) /\ Len(calls) = j
           /\ pc = "done" /\ response.status = 500
           /\ raised = "extractFactsFromText"

\* Of three chunks the second got an unparseable reply; the third was still
\* submitted and the request is answered 200 with a fact of another chunk
C5_Witness ==
  /\ pc = "done" /\ Len(chunks) = 3 /\ Len(calls) = 3
  /\ replies[2] = "invalid"
  /\ response.status = 200 /\ response.interests # <<>>

\* item.value, trimmed and lowercased
C6_Normalized(item) == toLowerCase(trim(item.value))

\* C6: in a response of the model-backed endpoint no category holds two
\* items with the same normalized value.  dedupeFacts keys on the type the
\* service gave, transformToFrontendFormat files under the corrected type.
C6_NoDuplicateInCategory ==
  \A c \in 1..4 :
     LET items == Categories(response)[c]
     IN \A i, j \in 1..Len(items) :
           i < j => C6_Normalized(items[i]) # C6_Normalized(items[j])

\* The pair the statement of C7 keys on
C7_SamePair(a, b) ==
  /\ Row(a.f).dedupeType = Row(b.f).dedupeType
  /\ Row(a.f).dedupeValue = Row(b.f).dedupeValue

RECURSIVE C7_Select(_, _, _)
\* The subsequence of facts at the indices for which keep holds
C7_Select(facts, keep, j) ==
  IF j > Len(facts) THEN <<>>
  ELSE (IF keep[j] THEN <<facts[j]>> ELSE <<>>) \o C7_Select(facts, keep, j + 1)

C7_Blank(e) == Row(e.f).dedupeType = "" \/ Row(e.f).dedupeValue = ""
C7_Key(e) == Row(e.f).dedupeType \o "::" \o Row(e.f).dedupeValue

Answered == build = "part_001" /\ pc = "done" /\ response.status = 200

\* value, trimmed and lowercased
Normalized(item) == toLowerCase(trim(item.value))

RawLists == <<rawItems.interests, rawItems.importantDates, rawItems.places>>

\* The place of an item in a list without repeated items
Position(list, item) == CHOOSE k \in 1..Len(list) : list[k] = item

\* C8: in each of interests, importantDates and places of the deterministic
\* extractor no two items have equal normalized values and no item's
\* normalized value is a substring of another item's.
C8_NoDuplicateNoSubstring ==
  Answered =>
     \A c \in 1..3 :
        LET items == Categories(response)[c]
        IN \A i, j \in 1..Len(items) :
              i # j =>
                 /\ Normalized(items[i]) # Normalized(items[j])
                 /\ ~includes(Normalized(items[j]), Normalized(items[i]))

\* "classical music" was discovered and, holding "music", did not survive
C8_Witness ==
  /\ Answered
  /\ \E k \in 1..Len(rawItems.interests) :
        rawItems.interests[k].value = "classical music"
  /\ response.interests = <<[value |-> "Yoga"], [value |-> "Music"]>>

\* C9 as stated: each category lists its surviving items in the order they
\* were discovered.
C9_InsertionOrder ==
  Answered =>
     \A c \in 1..3 :
        LET items == Categories(response)[c]
            raw == RawLists[c]
        IN \A i, j \in 1..Len(items) :
              i < j => Position(raw, items[i]) < Position(raw, items[j])

\* C9, amended: each of interests, importantDates and places lists its
\* surviving items by ascending length of the value, and items of the same
\* length in the order they were discovered.
C9_LengthThenInsertionOrder ==
  Answered =>
     \A c \in 1..3 :
        LET items == Categories(response)[c]
            raw == RawLists[c]
        IN \A i, j \in 1..Len(items) :
              i < j =>
                 /\ \E k \in 1..Len(raw) : raw[k] = items[i]
                 /\ \E k \in 1..Len(raw) : raw[k] = items[j]
                 /\ \/ Len(items[i].value) < Len(items[j].value)
                    \/ /\ Len(items[i].value) = Len(items[j].value)
                       /\ Position(raw, items[i]) < Position(raw, items[j])

\* "Music" was discovered before "Yoga" and is listed after it
C9_Witness ==
  /\ Answered
  /\ \E i, j \in 1..Len(response.interests) :
        /\ i < j
        /\ Position(rawItems.interests, response.interests[i])
             > Position(rawItems.interests, response.interests[j])

\* C10 as stated: no item of any category, notes included, is empty,
\* whitespace-only or a filler word such as "a lot" or "often".
C10_NoFillerAnywhere ==
  Answered =>
     \A c \in 1..4 : \A j \in 1..Len(Categories(response)[c]) :
        /\ trim(Categories(response)[c][j].value) # ""
        /\ toLowerCase(Categories(response)[c][j].value) \notin {"a lot", "often"}

Stoplist(words) == {toLowerCase(words[j]) : j \in 1..Len(words)}

\* C10, amended: for a text that is not blank no item of any category is
\* empty or whitespace-only, no item of interests equals, whatever the case,
\* an entry of the stoplist of interests, and no item of places an entry of
\* the stoplist of places.
C10_NoBlankNoOwnStoplist ==
  Answered =>
     /\ \A c \in 1..4 : \A j \in 1..Len(Categories(response)[c]) :
           trim(Categories(response)[c][j].value) # ""
     /\ \A j \in 1..Len(response.interests) :
           toLowerCase(response.interests[j].value)
             \notin Stoplist(GENERIC_FILTERS.interests)
     /\ \A j \in 1..Len(response.places) :
           toLowerCase(response.places[j].value)
             \notin Stoplist(GENERIC_FILTERS.places)

\* "a lot" was discovered as an interest and filtered out
C10_Witness ==
  /\ Answered
  /\ \E k \in 1..Len(rawItems.interests) : rawItems.interests[k].value = "a lot"
  /\ \A j \in 1..Len(response.interests) : response.interests[j].value # "a lot"

(***************************************************************************)
(* Re-classification on its own: the service has returned two facts with   *)
(* the same source text, and the request is finished from there            *)
(* (dedupeFacts and transformToFrontendFormat of the chunked service, the  *)
(* transformToFrontendFormat of the legacy service).                       *)
(***************************************************************************)
ClassifyTypes == {"interest", "important_date", "place", "note", "hobby"}
ClassifySources ==
  { "Born 5/5", "I am from Rome", "I like tea", "has two cats",
    "went to Rome on April 5", "I love my birthday", "likes hiking in Peru",
    "loves Rome, moved to it 2026-02-01", "may flowers", "the 5th of april",
    "job interview", "holiday plans" }
ClassifyPool ==
  {F(type, " a value ", source) : type \in ClassifyTypes, source \in ClassifySources}
ClassifyTable == TableOf(ClassifyPool)

InitClassify == \E b \in {"index", "legacy"} : InitWith(b, ClassifyTable)

Reclassify(a, b) ==
  /\ pc = "idle"
  /\ a.source_text = b.source_text
  /\ a.type # b.type
  /\ IF build = "index"
     THEN Finish(<<[f |-> a, k |-> 1], [f |-> b, k |-> 1]>>)
     ELSE \E result \in {TransformLegacyFrom(<<a, b>>, 1, EmptyResult)} :
             /\ merged' = <<a, b>>
             /\ raised' = "none"
             /\ response' = SuccessResponse(result)
             /\ pc' = "done"
  /\ UNCHANGED <<build, bodyText, chunks, allFacts, fabricated, calls, replies,
                 received, failedBefore, rawItems, factTable, content,
                 clientVars, cleanVars, file>>

NextClassify ==
  \/ \E a, b \in ClassifyPool : Reclassify(a, b)
  \/ NextRequest

SpecClassify == InitClassify /\ [][NextClassify]_vars

(***************************************************************************)
(* Properties of the services behind the handler of index.ts.              *)
(***************************************************************************)
Served == pc = "done" /\ response.status = 200
Labels == <<"interest", "important_date", "place", "note">>
Holds(list, src) == \E i \in 1..Len(list) : list[i].src = src

\* C11: a fact or entry whose category label is none of interest,
\* important_date, place and note is put into notes: it is never dropped,
\* and a fact of the single-category path appears under no other category.
\* The switch of part_006 has no default branch and drops the label.
C11_UnknownLabelGoesToNotes ==
  Served =>
    /\ build = "compound" =>
         \A j \in 1..Len(merged) :
            (\E k \in 1..Len(merged[j].categories.items) :
                merged[j].categories.items[k] \notin AllowedTypes)
              => Holds(response.notes, j)
    /\ build = "index" =>
         \A j \in 1..Len(merged) :
            (Truthy(merged[j].f.value) /\ merged[j].f.type.s \notin AllowedTypes)
              => /\ Holds(response.notes, merged[j])
                 /\ \A c \in 1..3 : ~Holds(Categories(response)[c], merged[j])

\* The compound service answered 200 and the entry tagged "family" alone is
\* in none of the four arrays
C11_Witness ==
  /\ build = "compound" /\ Served
  /\ \E j \in 1..Len(merged) :
        /\ merged[j].categories.items = <<"family">>
        /\ \A c \in 1..4 : ~Holds(Categories(response)[c], j)

C12_Count(list, j) == Cardinality({i \in 1..Len(list) : list[i].src = j})
C12_Occurrences(labels, label) ==
  Cardinality({k \in 1..Len(labels) : labels[k] = label})

\* C12: in the compound service each of the four output sequences holds,
\* in entry order, the trimmed text of every entry once for each time the
\* entry's categories name that sequence, so an entry tagged with several
\* categories appears with the same unsplit value in each of them.
C12_EveryNamedCategory ==
  (build = "compound" /\ Served) =>
     \A c \in 1..4 :
        /\ \A i \in 1..Len(Categories(response)[c]) :
              /\ Categories(response)[c][i].src \in 1..Len(merged)
              /\ Categories(response)[c][i].value
                   = trim(merged[Categories(response)[c][i].src].text.s)
        /\ \A j \in 1..Len(merged) :
              C12_Count(Categories(response)[c], j)
                = C12_Occurrences(merged[j].categories.items, Labels[c])
        /\ \A i1, i2 \in 1..Len(Categories(response)[c]) :
              i1 < i2 => Categories(response)[c][i1].src
                           <= Categories(response)[c][i2].src

\* An entry tagged interest and place, whose text had surrounding blanks,
\* is in both sequences with the trimmed value, after an earlier entry
C12_Witness ==
  /\ build = "compound" /\ Served
  /\ \E j \in 2..Len(merged) :
        /\ merged[j].text.s # trim(merged[j].text.s)
        /\ \E i \in 1..Len(response.interests) :
              response.interests[i] = [value |-> trim(merged[j].text.s), src |-> j]
        /\ \E i \in 1..Len(response.places) :
              response.places[i] = [value |-> trim(merged[j].text.s), src |-> j]

\* The reply is no JSON document, as a whole and as the span from its first
\* "{" to its last "}"
C20_Unparseable(reply) ==
  /\ JSONparse(reply).root = "SyntaxError"
  /\ JSONparse(jsonContent(reply)).root = "SyntaxError"

\* C20 as stated: whenever a reply of the service cannot be parsed as JSON,
\* extractFactsFromText raises "AI returned invalid JSON".  The chunked
\* service catches the parse error and goes on.
C20_UnparseableAlwaysRaises ==
  (/\ pc = "done"
   /\ \E k \in 1..Len(replies) : replies[k] = "invalid")
    => /\ raised = "extractFactsFromText"
       /\ response.message = "AI returned invalid JSON"

\* C20, amended: in the single-call services an unparseable reply makes
\* extractFactsFromText raise "AI returned invalid JSON", which the handler
\* answers with 500; in the chunked service an unparseable reply raises
\* nothing, and extractFactsFromText raises only when a call to the service
\* itself fails.
C20_SingleCallRaisesChunkedSkips ==
  pc = "done" =>
    /\ (build \in SingleCallBuilds /\ replies # <<>> /\ replies[1] # "raise"
          /\ C20_Unparseable(content))
         => /\ raised = "extractFactsFromText"
            /\ response.status = 500
            /\ response.message = "AI returned invalid JSON"
    /\ (build = "index" /\ raised = "extractFactsFromText")
         => \E k \in 1..Len(replies) : replies[k] = "raise"

\* The reply had a "{...}" span and still could not be parsed
C20_Witness ==
  /\ build = "compound" /\ pc = "done"
  /\ replies = <<"invalid">>
  /\ jsonContent(content) # content
  /\ response.status = 500

(***************************************************************************)
(* Properties of re-classification.                                        *)
(***************************************************************************)
C13_Fact(j) == IF build = "index" THEN merged[j].f ELSE merged[j]
C13_Src(j) == IF build = "index" THEN merged[j] ELSE j
C13_Text(j) == toLowerCase(C13_Fact(j).source_text.s)
\* The indicators of the version in use
C13_Date(text) ==
  IF build = "index" THEN hasDate(text)
  ELSE test(LegacyDateKeywords, text) \/ test(DateMonthWord, text)
         \/ test(LegacyDateFormats, text)
C13_Place(text) ==
  IF build = "index" THEN test(PlaceVerbs, text) ELSE test(LegacyPlaceVerbs, text)
C13_Interest(text) == test(InterestVerbs, text)
\* Fact j is in sequence number c of the response and in no other
C13_Only(c, j) ==
  \A d \in 1..4 : Holds(Categories(response)[d], C13_Src(j)) <=> d = c
C13_ByPriority(text, j, otherwise) ==
  IF C13_Date(text) THEN C13_Only(2, j)
  ELSE IF C13_Place(text) THEN C13_Only(3, j)
  ELSE IF C13_Interest(text) THEN C13_Only(1, j)
  ELSE C13_Only(otherwise, j)
\* Where the switch of transformToFrontendFormat puts a type
C13_Category(type) ==
  CASE type = "interest" -> 1 [] type = "important_date" -> 2
    [] type = "place" -> 3 [] OTHER -> 4

\* C13 as stated: every fact lands by the fixed priority date, place,
\* interest, and a fact with no indicator lands in notes.  A fact with an
\* unknown type is a note whatever its source text, and the legacy version
\* leaves a fact without indicator under the type the service gave it.
C13_FixedPriority ==
  Served => \A j \in 1..Len(merged) : C13_ByPriority(C13_Text(j), j, 4)

\* C13, amended: a fact whose type is one of the four allowed types lands
\* by the priority date, then place, then interest, then note; a fact with
\* any other type is a note.  In the legacy version every fact lands by the
\* same priority over that version's indicators, and a fact with no
\* indicator stays under the type the service gave it (notes when that type
\* is unknown).
C13_PriorityAmongAllowedTypes ==
  Served =>
    \A j \in 1..Len(merged) :
       IF build = "legacy"
       THEN C13_ByPriority(C13_Text(j), j, C13_Category(C13_Fact(j).type.s))
       ELSE IF C13_Fact(j).type.s \notin AllowedTypes THEN C13_Only(4, j)
       ELSE C13_ByPriority(C13_Text(j), j, 4)

\* A fact typed interest whose source text has a date, a place and an
\* interest indicator is among the dates
C13_Witness ==
  /\ build = "index" /\ Served
  /\ \E j \in 1..Len(merged) :
        /\ merged[j].f.type = Str("interest")
        /\ hasDate(C13_Text(j)) /\ test(PlaceVerbs, C13_Text(j))
        /\ test(InterestVerbs, C13_Text(j))
        /\ Holds(response.importantDates, merged[j])

C14_SameCategory(j1, j2) ==
  \A c \in 1..4 : Holds(Categories(response)[c], C13_Src(j1))
                    <=> Holds(Categories(response)[c], C13_Src(j2))
C14_Indicated(text) == C13_Date(text) \/ C13_Place(text) \/ C13_Interest(text)

\* C14 as stated: two facts with the same source text land in the same
\* category whatever types the service gave them, valid or not.
C14_SameSourceSameCategory ==
  Served =>
    \A j1, j2 \in 1..Len(merged) :
       C13_Fact(j1).source_text = C13_Fact(j2).source_text => C14_SameCategory(j1, j2)

\* C14, amended: two facts with the same source text land in the same
\* category when both types are among the four allowed types; a fact with
\* any other type lands in notes.  In the legacy version they land in the
\* same category when the source text has an indicator, and each under its
\* own type when it has none.
C14_SameSourceAllowedTypes ==
  Served =>
    \A j1, j2 \in 1..Len(merged) :
       C13_Fact(j1).source_text = C13_Fact(j2).source_text =>
          IF build = "legacy"
          THEN IF C14_Indicated(C13_Text(j1)) THEN C14_SameCategory(j1, j2)
               ELSE C13_Only(C13_Category(C13_Fact(j1).type.s), j1)
          ELSE /\ ({C13_Fact(j1).type.s, C13_Fact(j2).type.s} \subseteq AllowedTypes
                     => C14_SameCategory(j1, j2))
               /\ (C13_Fact(j1).type.s \notin AllowedTypes => C13_Only(4, j1))

\* Two facts typed interest and place with one source text are both among
\* the dates
C14_Witness ==
  /\ build = "index" /\ Served
  /\ Len(merged) = 2
  /\ merged[1].f.type = Str("interest") /\ merged[2].f.type = Str("place")
  /\ merged[1].f.source_text = merged[2].f.source_text
  /\ Holds(response.importantDates, merged[1])
  /\ Holds(response.importantDates, merged[2])

(***************************************************************************)
(* Properties of the client store.                                         *)
(***************************************************************************)
ListsOf(person) == {person[ItemTypes[c]] : c \in 1..4}
StoredLists == UNION {ListsOf(people[i]) : i \in 1..Len(people)}
Distinct(list) ==
  \A i \in 1..Len(list) : \A j \in 1..Len(list) :
     list[i].value = list[j].value => i = j

\* C15: after any sequence of client operations no category list of any
\* person holds two items with the same value.
C15_NoValueStoredTwice == \A list \in StoredLists : Distinct(list)

\* Two items of one response, one of them edited to the value of the other
C15_Witness ==
  \E list \in StoredLists : \E i \in 1..Len(list) : \E j \in 1..Len(list) :
     /\ list[i].id # list[j].id
     /\ list[i].value = list[j].value
     /\ list[i].messageId = list[j].messageId

\* The items with a value in a list
Carriers(list, value) == {i \in 1..Len(list) : list[i].value = value}
NewerOnly(before, after, value, firstId, messageId) ==
  /\ Cardinality(Carriers(after, value)) = 1
  /\ \A i \in Carriers(after, value) :
        after[i].id > firstId /\ after[i].messageId = messageId
  /\ \A i \in Carriers(before, value) :
        before[i].id <= firstId /\ before[i].messageId < messageId
NewestWins(i, c) ==
  \A k \in 1..Len(journal'.data[ItemTypes[c]]) :
     Carriers(people[i][ItemTypes[c]], journal'.data[ItemTypes[c]][k]) # {}
       => NewerOnly(people[i][ItemTypes[c]], people'[i][ItemTypes[c]],
                    journal'.data[ItemTypes[c]][k], nextId, pending.messageId)
MergeStep == pending.active /\ ~pending'.active /\ journal'.found

\* C16: when a response for a person returns a value already stored in the
\* same category of that person, the merge leaves exactly one item with that
\* value, and it carries an id and the messageId of the later submission.
C16_NewestWinsOnCollision ==
  [][MergeStep =>
       \A i \in 1..Len(people) :
          people[i].id = pending.personId => \A c \in 1..4 : NewestWins(i, c)]_vars

\* A later submission of the same person has replaced a stored item
C16_Witness ==
  /\ journal.overwrote
  /\ \E i \in 1..Len(people) : \E m \in 1..Len(messages) : \E n \in 1..Len(messages) :
        /\ messages[m].personId = people[i].id
        /\ messages[n].personId = people[i].id
        /\ messages[m].id < messages[n].id
        /\ \E x \in 1..Len(people[i].interests) :
              people[i].interests[x].messageId = messages[n].id

Sourced(person, item) ==
  \E m \in 1..Len(messages) :
     messages[m].id = item.messageId /\ messages[m].personId = person.id

\* C17: every item stored under a person names a message of the store whose
\* personId is that person.
C17_ItemsNameAMessageOfTheirPerson ==
  \A i \in 1..Len(people) : \A list \in ListsOf(people[i]) :
     \A x \in 1..Len(list) : Sourced(people[i], list[x])

\* A response with items arrived after the selection had changed, and was
\* stored
C17_Witness ==
  /\ journal.found
  /\ ~journal.selected
  /\ ItemCount(journal.data) > 0
  /\ \E i \in 1..Len(people) :
        people[i].id # selectedPersonId /\ Len(people[i].interests) > 0

Messages == {messages[m] : m \in 1..Len(messages)}
Kept(m) == \E n \in 1..Len(messages') : messages'[n] = m
RemovedWithItsPerson(m) ==
  m.personId \in Ids(people) /\ m.personId \notin Ids(people')

\* C18: a stored message stays in the store unchanged through every step,
\* except the step that removes its own person.
C18_MessagesLeaveOnlyWithTheirPerson ==
  [][\A m \in Messages : Kept(m) \/ RemovedWithItsPerson(m)]_vars

\* A person was removed with its messages, and the message of another
\* person, submitted before that and named by a stored item, is in the store
C18_Witness ==
  /\ journal.removed
  /\ \E m \in Messages : \E i \in 1..Len(people) :
        /\ m.personId = people[i].id
        /\ \E x \in 1..Len(people[i].interests) :
              people[i].interests[x].messageId = m.id

(***************************************************************************)
(* Properties of the value cleaning.                                       *)
(***************************************************************************)
\* C19: cleaning is idempotent: cleaning a cleaned value gives the cleaned
\* value.
C19_CleaningIsIdempotent == cleanedTwice = cleanedOnce

\* Punctuation before a trailing space survives the first cleaning and not
\* the second
C19_Witness ==
  /\ argument = "a. "
  /\ cleanedOnce = "a."
  /\ cleanedTwice = "a"

(***************************************************************************)
(* Properties of the loop over the chunks.                                 *)
(***************************************************************************)
LoopEnded == pc = "done" /\ response.status # 400
InChunkOrder(facts) ==
  \A i \in 1..Len(facts) : \A j \in 1..Len(facts) :
     i < j => facts[i].k <= facts[j].k

\* C21: for one request the service is called exactly once per chunk, in
\* chunk order, a call only after the call before it has returned, and the
\* accepted facts are merged in chunk order.
C21_ExactlyOncePerChunk ==
  /\ LoopEnded => calls = chunks
  /\ Len(calls) - Len(replies) = (IF pc = "awaitOllama" THEN 1 ELSE 0)
  /\ InChunkOrder(allFacts) /\ InChunkOrder(merged)

\* C21, amended: the calls are the chunks up to the last one sent, each sent
\* once and only after the call before it has returned; every chunk is sent
\* unless a call was rejected, which ends the request; the accepted facts
\* are merged in chunk order.
C21_OncePerChunkUntilRejected ==
  /\ Len(calls) <= Len(chunks)
  /\ calls = SubSeq(chunks, 1, Len(calls))
  /\ (LoopEnded /\ raised # "extractFactsFromText") => calls = chunks
  /\ (LoopEnded /\ raised = "extractFactsFromText")
       => replies[Len(replies)] = "raise"
  /\ Len(calls) - Len(replies) = (IF pc = "awaitOllama" THEN 1 ELSE 0)
  /\ InChunkOrder(allFacts) /\ InChunkOrder(merged)

\* Three chunks were sent one after the other and facts of two of them are
\* merged
C21_Witness ==
  /\ LoopEnded
  /\ Len(chunks) = 3
  /\ calls = chunks
  /\ Len(replies) = 3
  /\ \E i \in 1..Len(merged) : \E j \in 1..Len(merged) : merged[i].k < merged[j].k

(***************************************************************************)
(* Properties of the notes of part_001.                                    *)
(***************************************************************************)
\* C22: for every text the deterministic extractor accepts, the notes it
\* returns are exactly one item whose value is the text as it was received.
C22_NoteIsTheWholeText == Answered => response.notes = <<[value |-> bodyText.s]>>

\* A text that cleaning or trimming would change, with a date found in it
C22_Witness ==
  /\ Answered
  /\ bodyText.s # cleanExtractedValue(bodyText.s)
  /\ Len(response.importantDates) > 0
  /\ Len(response.notes) = 1

(***************************************************************************)
(* Properties of the chunks.                                               *)
(***************************************************************************)
\* C23: every chunk of every text is at most 180 characters long.
C23_ChunksAtMost180 == \A j \in 1..Len(chunks) : Len(chunks[j]) <= ChunkMax

\* A sentence of 181 letters without a clause separator is one chunk
C23_Witness ==
  /\ pc = "done"
  /\ argument = Letters(181) \o ". " \o Letters(4) \o ". "
  /\ \E j \in 1..Len(chunks) : Len(chunks[j]) = 182

(***************************************************************************)
(* Properties of a reply that carries one fact object in place of the      *)
(* array of facts.                                                         *)
(***************************************************************************)
ParsedContent == JSONparse(jsonContent(content))
SingleFactObject ==
  /\ pc = "done"
  /\ build = "legacy"
  /\ replies = <<"parsed">>
  /\ ParsedContent.list = "object"
  /\ ParsedContent.field \in {"facts", "both"}
TheObject == ParsedContent.items[1]
Complete(fact) ==
  /\ Truthy(fact.type) /\ Truthy(fact.value)
  /\ fact.value # Str("null") /\ fact.type # Str("null")

FileType == detectFileType(file.mimetype, file.originalname)
Refused(status) == pc = "done" /\ response.status = status /\ calls = <<>>

\* C25: extractFactsFromText is called only with non-empty normalized text
\* of at most 12,000 characters; a request without a file is answered 400, an
\* unsupported type 415, a file without text 400, each without a call to the
\* external service.
C25_OnlyCappedTextReachesTheService ==
  /\ bodyText # Undefined =>
       /\ file.present /\ FileType # "none"
       /\ bodyText.s # ""
       /\ Len(bodyText.s) <= 12000
       /\ bodyText.s = SubSeq(normalizeExtractedText(file.text), 1, Len(bodyText.s))
  /\ calls # <<>> => bodyText # Undefined
  /\ (pc # "idle" /\ ~file.present) => Refused(400)
  /\ (pc # "idle" /\ file.present /\ FileType = "none") => Refused(415)
  /\ (pc # "idle" /\ file.present /\ FileType # "none" /\ file.readable
        /\ normalizeExtractedText(file.text) = "")
       => Refused(400)

\* A file of more than 12,000 characters was cut and sent in two chunks
C25_Witness ==
  /\ pc = "done"
  /\ response.status = 200
  /\ Len(normalizeExtractedText(file.text)) > 12000
  /\ Len(bodyText.s) = 12000
  /\ Len(calls) = 2

(***************************************************************************)
(* Properties of a text without a chunk worth sending.                     *)
(***************************************************************************)
SentencesOf(text) == splitSentences(trim(collapseWhitespace(text)))
OnlyShortSentences ==
  /\ ~InvalidText(bodyText)
  /\ \A j \in 1..Len(SentencesOf(bodyText.s)) :
        Len(SentencesOf(bodyText.s)[j]) < ChunkMin

\* C26: a text that passes the validation of POST /extract and whose chunks
\* are all shorter than 6 characters causes no call to the external service
\* and is answered 200 with four empty arrays.
C26_ShortChunksCauseNoCall ==
  (build = "index" /\ pc # "idle" /\ OnlyShortSentences) =>
    /\ pc = "done"
    /\ calls = <<>>
    /\ response.status = 200
    /\ response.arrays
    /\ response.interests = <<>> /\ response.importantDates = <<>>
    /\ response.places = <<>> /\ response.notes = <<>>

\* Two sentences, each shorter than 6 characters, were answered
C26_Witness ==
  /\ build = "index"
  /\ pc = "done"
  /\ OnlyShortSentences
  /\ Len(SentencesOf(bodyText.s)) = 2
  /\ response.status = 200

(***************************************************************************)
(* Properties of the selection.                                            *)
(***************************************************************************)
SelectionIsAPerson ==
  IF people = <<>> THEN selectedPersonId = 0 ELSE selectedPersonId \in Ids(people)
SelectedLeaves == selectedPersonId # 0 /\ selectedPersonId \notin Ids(people')

\* C27: selectedPersonId is null exactly when there is no person and is
\* otherwise the id of a person of the list; removing the selected person
\* selects the first remaining person.
C27_SelectionFollowsThePeople ==
  /\ []SelectionIsAPerson
  /\ [][SelectedLeaves =>
          selectedPersonId' = (IF people' = <<>> THEN 0 ELSE people'[1].id)]_vars

\* The first person is gone and the first of the remaining two is selected
C27_Witness ==
  /\ Len(people) = 2
  /\ people[1].id > 1
  /\ selectedPersonId = people[1].id

(***************************************************************************)
(* Properties of a response that arrives after the selection has changed. *)
(***************************************************************************)
ResponseStep == pending.active /\ ~pending'.active
Untouched(i) == people'[i] = people[i]

\* C28: the items of a response are merged only into the person who was
\* selected when the conversation was submitted: every other person,
\* the one selected at response time included, is left as it was, and when
\* the submitting person is gone no person changes.
C28_OnlyTheSubmittingPersonReceives ==
  [][ResponseStep =>
       /\ Len(people') = Len(people)
       /\ \A i \in 1..Len(people) :
             people[i].id # pending.personId => Untouched(i)
       /\ pending.personId \notin Ids(people) => people' = people]_vars

\* A response with items arrived after its person was removed, and the
\* people that remain hold nothing
C28_Witness ==
  /\ ~pending.active
  /\ ~journal.found
  /\ ItemCount(journal.data) > 0
  /\ people # <<>>
  /\ \A list \in StoredLists : list = <<>>

(***************************************************************************)
(* Properties of a failed extraction request.                              *)
(***************************************************************************)
Recorded(messageId, personId, store) ==
  \E m \in 1..Len(store) : store[m].id = messageId /\ store[m].personId = personId

C30_OneSubmissionAtATime ==
  /\ [](inFlight <= 1 /\ (isSubmitting <=> inFlight = 1))
  /\ isSubmitting ~> ~isSubmitting
  /\ [][(isSubmitting /\ ~isSubmitting')
          => (selectedPersonId' # 0 => ~Ignored("I like tea")')]_vars

\* A second submission is in flight after the first has settled
C30_Witness ==
  /\ isSubmitting
  /\ inFlight = 1
  /\ Len(messages) = 2
  /\ pending.messageId = messages[2].id

=============================================================================
